---- MODULE Spec2Model ----
(***************************************************************************)
(* Verification model of XORNG/node: the provider abstraction layer.       *)
(*                                                                         *)
(*   BridgeSpec      AnthropicProvider.stream: the push-to-pull bridge     *)
(*                   from the SDK's event emitter to the async generator.  *)
(*   RetrySpec       BaseProvider.withRetry: one call.                     *)
(*   DispatcherSpec  NodeManager and the ModelRegistry it consults.        *)
(*                                                                         *)
(* JavaScript runs one task at a time: an event handler and a stretch of    *)
(* generator code between two suspension points are each one atomic step.   *)
(***************************************************************************)
EXTENDS Integers, Sequences, FiniteSets, TLC

VARIABLES
    \* ---- AnthropicProvider.stream: the closure's state
    chunks,        \* const chunks: StreamChunk[]            (queue of buffered chunks)
    resolveNext,   \* let resolveNext: ... | null            (TRUE: a resolver is stored)
    done,          \* let done = false
    genPc,         \* where the generator is suspended
    emitter,       \* the SDK stream object: "idle" | "open" | "ended" | "errored"
    pull,          \* the consumer's next(): "idle" | "pending"
    exhausted,     \* the consumer has observed {done: true}
    \* ---- history of the bridge (observation only, never read by the code)
    fired,         \* contents of the 'text' events fired, in emission order
    received,      \* chunks the consumer received, in order
    buffered,      \* chunks pushed on the queue, in order
    atMessage,     \* the queue as it was when 'message' fired
    wokeBy,        \* which handler resolved the consumer's promise last
    \* ---- BaseProvider.withRetry: one call
    rArg,          \* the maxRetries argument as passed (Undefined: left out)
    maxRetries,    \* the parameter after its default
    attempt,       \* let attempt
    lastError,     \* let lastError: Error | undefined
    rPc,           \* "idle" | "loop" | "sleeping" | "returned" | "threw"
    rResult,       \* what withRetry returned or threw
    \* ---- history of the call (observation only)
    calls,         \* invocations of operation()
    delays,        \* the sleeps requested, in ms, in order
    attempts,      \* what each invocation did
    \* ---- ModelRegistry (the singleton) and NodeManager
    models,        \* private models: Map<string, ModelInfo>
    providers,     \* private providers: Map<ProviderType, BaseProvider>
    defaultProvider, \* private defaultProvider: ProviderType = 'anthropic'
    \* ---- history of the dispatcher (observation only)
    dCall,         \* the last complete/stream since the configuration changed:
                   \* its options, the adapter it forwarded to, what it threw
    dConfig,       \* the last operation if it was initializeProvider or
                   \* setDefaultProvider: its argument, what it threw, the
                   \* configuration before it
    \* ---- OpenAIProvider.stream / LocalProvider.stream: one call
    sAdapter,      \* whose stream() was called: "none" | "openai" | "local"
    sPc,           \* where the generator is suspended
    sPull,         \* the consumer's next(): "idle" | "pending"
    sTransport,    \* "closed" | "open" | "ended" | "failed" | "refused"
    body,          \* the bytes of the response body not read yet (Local)
    buffer,        \* let buffer = ''                                (Local)
    lines,         \* what is left of the for loop over lines         (Local)
    locked,        \* the reader holds the body's lock               (Local)
    \* ---- history of the call (observation only)
    sOutcome,      \* how the consumer's last next() settled
    sReceived,     \* chunks the consumer received, in order
    sItems,        \* items the SDK's stream produced                (OpenAI)
    releases,      \* calls of reader.releaseLock()
    sFault,        \* what the transport rejected with, if it has
    sError,        \* what the consumer's next() rejected with, if it has
    sSent,         \* the whole body the local server sent
    sSplit,        \* a read has ended inside a well-formed data line
    \* ---- NodeManager.listAllModels / validateAllCredentials: one call
    aOp,           \* "none" | "listAllModels" | "validateAllCredentials"
    aPc,           \* "idle" | "awaiting" | "returned" | "threw"
    aCurrent,      \* the [type, provider] entry the loop is at
    aVisited,      \* the entries the Map iterator has passed
    aResult,       \* const result = new Map()
    \* ---- history of the call (observation only)
    aDid,          \* what each adapter's call did
    aAtReturn,     \* the kinds initialized when the call returned
    \* ---- validateCredentials of one adapter object
    vAdapter,      \* the adapter: "none" | "openai" | "anthropic" | "local"
    vConfigRetries, \* this.config.maxRetries
    vClient,       \* this.client is set
    vPc,           \* "idle" | "importing" | "probing" | "sleeping" | "returned" | "threw"
    vAttempt,      \* withRetry: attempt
    vLastError,    \* withRetry: lastError
    vResult,       \* what validateCredentials resolved to
    \* ---- history of the call (observation only)
    vCalls,        \* invocations of the transport in this call
    vFailure,      \* what failed in this call, if anything
    vRuns,         \* calls of validateCredentials so far
    \* ---- the adapters' translation functions (observation only)
    fCall,          \* the last call of one of them: its name, input and result
    \* ---- ModelRegistry: register and the queries (models is above)
    cLog,          \* history: the entries registered by CatalogRegister, in order
    cCall,          \* history: the last query, its arguments and its result
    \* ---- getClient of one SDK adapter object, called concurrently
    gAdapter,      \* the adapter: "none" | "openai" | "anthropic"
    gInstalled,    \* import('openai') / import('@anthropic-ai/sdk') resolves
    gClient,       \* this.client: 0 for null, else the client object's number
    gCallers,      \* per caller: the method it called, where its getClient()
                   \* is, and the client it was given
    \* ---- history (observation only)
    gMade,          \* clients constructed so far
    \* ---- complete of one adapter object: one call
    kAdapter,      \* the adapter: "none" | "openai" | "anthropic" | "local"
    kConfigRetries, \* this.config.maxRetries
    kPc,           \* "idle" | "awaiting" | "sleeping" | "returned" | "threw"
    kAttempt,      \* withRetry: attempt
    kLastError,    \* withRetry: lastError
    kResult,       \* the CompletionResponse complete resolved to
    \* ---- history of the call (observation only)
    kCalls,        \* invocations of the transport in this call
    kDelays,       \* the delays slept, in order
    kArrived,      \* per invocation, what came of it
    kFailure,       \* what made the call fail, if it has
    \* ---- history of one stream call of any adapter (observation only)
    tOpens,        \* times the call asked the transport for a stream
    tDelays,        \* the backoff delays slept inside the call, in order
    \* ---- dispatcher set up from the environment
    env,           \* process.env: the three variables the dispatcher reads
    adapters,      \* kind -> what the adapter in the providers Map was built with
    eCall          \* the initializeFromEnvironment call just made, or Undefined

bridgeVars == <<chunks, resolveNext, done, genPc, emitter, pull, exhausted,
                fired, received, buffered, atMessage, wokeBy>>

retryVars == <<rArg, maxRetries, attempt, lastError, rPc, rResult,
               calls, delays, attempts>>

dispatcherVars == <<models, providers, defaultProvider, dCall, dConfig>>

pullVars == <<sAdapter, sPc, sPull, sTransport, body, buffer, lines, locked,
              sOutcome, sReceived, sItems, releases, sFault, sError, sSent, sSplit>>

aggregateVars == <<aOp, aPc, aCurrent, aVisited, aResult, aDid, aAtReturn>>

translationVars == <<fCall>>

probeVars == <<vAdapter, vConfigRetries, vClient, vPc, vAttempt, vLastError,
               vResult, vCalls, vFailure, vRuns>>

catalogVars == <<cLog, cCall>>

clientVars == <<gAdapter, gInstalled, gClient, gCallers, gMade>>

completeVars == <<kAdapter, kConfigRetries, kPc, kAttempt, kLastError, kResult, kCalls, kDelays, kArrived, kFailure>>

streamVars == <<tOpens, tDelays>>

envVars == <<env, adapters, eCall>>

vars == <<bridgeVars, retryVars, dispatcherVars, pullVars, aggregateVars,
          translationVars, probeVars,
    catalogVars,
    clientVars,
    completeVars,
    streamVars,
    envVars>>

\* what an action of one component leaves alone
notEnv == <<bridgeVars, retryVars, pullVars, aggregateVars, translationVars, probeVars, catalogVars, clientVars, completeVars, streamVars>>
notPullNorStream == <<bridgeVars, retryVars, dispatcherVars, aggregateVars, translationVars,
    probeVars, catalogVars, clientVars, completeVars,
    envVars>>
notBridgeNorStream == <<retryVars, dispatcherVars, pullVars, aggregateVars, translationVars,
    probeVars, catalogVars, clientVars, completeVars,
    envVars>>
notComplete == <<bridgeVars, retryVars, dispatcherVars, pullVars, aggregateVars, translationVars, probeVars, catalogVars, clientVars,
    streamVars,
    envVars>>
notClient == <<bridgeVars, retryVars, dispatcherVars, pullVars, aggregateVars, translationVars, probeVars, catalogVars,
    completeVars,
    streamVars,
    envVars>>
notCatalog == <<bridgeVars, retryVars, pullVars, aggregateVars, translationVars, probeVars,
    clientVars,
    completeVars,
    streamVars,
    envVars>>
notBridge == <<retryVars, dispatcherVars, pullVars, aggregateVars,
              translationVars,
    probeVars,
    catalogVars,
    clientVars,
    completeVars,
    streamVars,
    envVars>>
notRetry == <<bridgeVars, dispatcherVars, pullVars, aggregateVars,
             translationVars,
    probeVars,
    catalogVars,
    clientVars,
    completeVars,
    streamVars,
    envVars>>
notDispatcher == <<bridgeVars, retryVars, pullVars, aggregateVars,
                  translationVars,
    probeVars,
    catalogVars,
    clientVars,
    completeVars,
    streamVars,
    envVars>>
notPull == <<bridgeVars, retryVars, dispatcherVars, aggregateVars,
            translationVars,
    probeVars,
    catalogVars,
    clientVars,
    completeVars,
    streamVars,
    envVars>>
notAggregate == <<bridgeVars, retryVars, pullVars, translationVars,
    probeVars,
    catalogVars,
    clientVars,
    completeVars,
    streamVars,
    envVars>>
notProbe == <<bridgeVars, retryVars, dispatcherVars, pullVars, aggregateVars,
             translationVars,
    catalogVars,
    clientVars,
    completeVars,
    streamVars,
    envVars>>
notTranslation == <<bridgeVars, retryVars, dispatcherVars, pullVars,
                   aggregateVars,
    probeVars,
    catalogVars,
    clientVars,
    completeVars,
    streamVars,
    envVars>>

(***************************************************************************)
(* Bounds                                                                  *)
(***************************************************************************)
\* 'text' events fired in one stream call
MaxText == 3

\* items the OpenAI SDK's stream produces in one stream call
MaxItems == 2

\* messages in the list given to formatMessages
MaxMessages == 3

\* fields of CompletionOptions a caller sets in one call
MaxSetOptions == 3

\* calls of validateCredentials on one adapter object
MaxProbeRuns == 2

\* contents a 'text' event may carry
Texts == {"a", "b"}

\* largest maxRetries argument withRetry is called with
MaxAttemptsBound == 4

\* values the operation may resolve to
Values == {"v1", "v2"}

(***************************************************************************)
(* Helpers                                                                 *)
(***************************************************************************)
Contents(cs) == [i \in 1..Len(cs) |-> cs[i].content]

(***************************************************************************)
(* Text. A string is the sequence of its characters, so that toLowerCase,   *)
(* includes and startsWith are computed character by character.             *)
(***************************************************************************)
UpperCase ==
    <<"A","B","C","D","E","F","G","H","I","J","K","L","M",
      "N","O","P","Q","R","S","T","U","V","W","X","Y","Z">>
LowerCase ==
    <<"a","b","c","d","e","f","g","h","i","j","k","l","m",
      "n","o","p","q","r","s","t","u","v","w","x","y","z">>

\* String.prototype.toLowerCase
ToLowerChar(c) ==
    IF \E i \in 1..26 : UpperCase[i] = c
    THEN LowerCase[CHOOSE i \in 1..26 : UpperCase[i] = c]
    ELSE c
ToLowerCase(s) == [i \in 1..Len(s) |-> ToLowerChar(s[i])]

\* String.prototype.includes
Includes(s, p) ==
    \E i \in 0..(Len(s) - Len(p)) : SubSeq(s, i + 1, i + Len(p)) = p

\* String.prototype.startsWith
StartsWith(s, p) ==
    Len(s) >= Len(p) /\ SubSeq(s, 1, Len(p)) = p

(***************************************************************************)
(* BaseProvider.isNonRetryableError                                        *)
(***************************************************************************)
\* "invalid_api_key"
Pat_invalid_api_key ==
    <<"i","n","v","a","l","i","d","_","a","p","i","_","k","e","y">>
\* "authentication"
Pat_authentication ==
    <<"a","u","t","h","e","n","t","i","c","a","t","i","o","n">>
\* "unauthorized"
Pat_unauthorized ==
    <<"u","n","a","u","t","h","o","r","i","z","e","d">>
\* "forbidden"
Pat_forbidden ==
    <<"f","o","r","b","i","d","d","e","n">>
\* "not_found"
Pat_not_found ==
    <<"n","o","t","_","f","o","u","n","d">>
\* "invalid_request"
Pat_invalid_request ==
    <<"i","n","v","a","l","i","d","_","r","e","q","u","e","s","t">>

\* const nonRetryablePatterns = [...]
nonRetryablePatterns ==
    <<Pat_invalid_api_key,
      Pat_authentication,
      Pat_unauthorized,
      Pat_forbidden,
      Pat_not_found,
      Pat_invalid_request>>

\* const message = error.message.toLowerCase();
\* return nonRetryablePatterns.some(pattern => message.includes(pattern));
isNonRetryableError_CaseSensitive(error) ==
    \E i \in 1..Len(nonRetryablePatterns) :
        Includes(error.message, nonRetryablePatterns[i])
isNonRetryableError(error) ==
    LET message == ToLowerCase(error.message) IN
    \E i \in 1..Len(nonRetryablePatterns) :
        Includes(message, nonRetryablePatterns[i])

(***************************************************************************)
(* What one invocation of the operation may do. marked records, by          *)
(* inspection of the text, whether it holds one of the six markers in any   *)
(* letter case; the model of the code never reads it.                       *)
(***************************************************************************)
\* "401 Unauthorized"
Msg_Unauthorized ==
    <<"4","0","1"," ","U","n","a","u","t","h","o","r","i","z","e","d">>
\* "INVALID_API_KEY"
Msg_InvalidApiKey ==
    <<"I","N","V","A","L","I","D","_","A","P","I","_","K","E","Y">>
\* "Authentication failed"
Msg_Authentication ==
    <<"A","u","t","h","e","n","t","i","c","a","t","i","o","n"," ","f","a",
      "i","l","e","d">>
\* "403 forbidden"
Msg_Forbidden ==
    <<"4","0","3"," ","f","o","r","b","i","d","d","e","n">>
\* "model_not_found"
Msg_NotFound ==
    <<"m","o","d","e","l","_","n","o","t","_","f","o","u","n","d">>
\* "Invalid_Request_Error"
Msg_InvalidRequest ==
    <<"I","n","v","a","l","i","d","_","R","e","q","u","e","s","t","_","E",
      "r","r","o","r">>
\* "rate limit"
Msg_RateLimit ==
    <<"r","a","t","e"," ","l","i","m","i","t">>
\* "Not Found"
Msg_NotFoundSpaced ==
    <<"N","o","t"," ","F","o","u","n","d">>
\* "boom"
Msg_Boom ==
    <<"b","o","o","m">>

\* Error objects the operation may throw
ThrownErrors ==
    {[isError |-> TRUE, text |-> Msg_Unauthorized, marked |-> TRUE],
     [isError |-> TRUE, text |-> Msg_InvalidApiKey, marked |-> TRUE],
     [isError |-> TRUE, text |-> Msg_Authentication, marked |-> TRUE],
     [isError |-> TRUE, text |-> Msg_Forbidden, marked |-> TRUE],
     [isError |-> TRUE, text |-> Msg_NotFound, marked |-> TRUE],
     [isError |-> TRUE, text |-> Msg_InvalidRequest, marked |-> TRUE],
     [isError |-> TRUE, text |-> Msg_RateLimit, marked |-> FALSE],
     [isError |-> TRUE, text |-> Msg_NotFoundSpaced, marked |-> FALSE],
     [isError |-> TRUE, text |-> Msg_Boom, marked |-> FALSE]}

\* Throwables that are not Error objects (a thrown string)
ThrownNonErrors ==
    {[isError |-> FALSE, text |-> Msg_Boom, marked |-> FALSE],
     [isError |-> FALSE, text |-> Pat_unauthorized, marked |-> TRUE]}

Throwables == ThrownErrors \cup ThrownNonErrors

(***************************************************************************)
(* AnthropicProvider.stream                                                *)
(***************************************************************************)
\* while (!done || chunks.length > 0)
LoopCond_NoDrain(d, cs) == ~d
LoopCond(d, cs) == ~d \/ Len(cs) > 0

\* stream.on('message'): if (resolveNext) resolveNext({value: undefined, done: true})
\* Resolving a promise that is still pending queues the generator's continuation.
MessageWake_Lost(rn, pc) == pc
MessageWake(rn, pc) == IF rn /\ pc = "awaiting" THEN "resumable" ELSE pc

\* One run of the generator from the top of the while loop to its next
\* suspension point (a yield, the await of the hand-off promise) or its end.
LoopStep ==
    IF LoopCond(done, chunks)
    THEN IF Len(chunks) > 0
         THEN \* const chunk = chunks.shift(); if (chunk) yield chunk
              /\ chunks' = Tail(chunks)
              /\ received' = Append(received, Head(chunks))
              /\ genPc' = "atYield"
              /\ pull' = "idle"
              /\ UNCHANGED <<resolveNext, exhausted>>
         ELSE IF ~done
              THEN \* await new Promise(resolve => { resolveNext = resolve })
                   /\ resolveNext' = TRUE
                   /\ genPc' = "awaiting"
                   /\ pull' = "pending"
                   /\ UNCHANGED <<chunks, received, exhausted>>
              ELSE \* nothing shifted and done: back to the loop condition
                   /\ genPc' = "spinning"
                   /\ pull' = "pending"
                   /\ UNCHANGED <<chunks, received, exhausted, resolveNext>>
    ELSE \* the generator returns: the pending next() resolves {done: true}
         /\ genPc' = "finished"
         /\ pull' = "idle"
         /\ exhausted' = TRUE
         /\ UNCHANGED <<chunks, received, resolveNext>>

\* The consumer calls next(). The first call runs the generator's prologue:
\* client.messages.stream(params) and the two stream.on registrations.
Pull ==
    /\ sAdapter = "none"          \* one stream call is followed at a time
    /\ pull = "idle"
    /\ ~exhausted
    /\ genPc \in {"notStarted", "atYield"}
    /\ emitter' = IF genPc = "notStarted" THEN "open" ELSE emitter
    /\ tOpens' = IF genPc = "notStarted" THEN tOpens + 1 ELSE tOpens
    /\ LoopStep
    /\ UNCHANGED <<done, fired, buffered, atMessage, wokeBy, tDelays>>
    /\ UNCHANGED notBridgeNorStream

\* The continuation of the await runs (a microtask).
Resume ==
    /\ genPc = "resumable"
    /\ LoopStep
    /\ UNCHANGED <<done, emitter, fired, buffered, atMessage, wokeBy>>
    /\ UNCHANGED notBridge

\* stream.on('text', ...)
OnText(t) ==
    /\ emitter = "open"
    /\ Len(fired) < MaxText
    /\ fired' = Append(fired, t)
    /\ LET chunk == [id |-> Len(fired) + 1, content |-> t] IN
       IF resolveNext
       THEN \* resolveNext({value: chunk, done: false}); resolveNext = null
            \* the await's value is not used by the generator
            /\ genPc' = IF genPc = "awaiting" THEN "resumable" ELSE genPc
            /\ wokeBy' = IF genPc = "awaiting" THEN "text" ELSE wokeBy
            /\ resolveNext' = FALSE
            /\ UNCHANGED <<chunks, buffered>>
       ELSE \* chunks.push(chunk)
            /\ chunks' = Append(chunks, chunk)
            /\ buffered' = Append(buffered, chunk)
            /\ UNCHANGED <<genPc, wokeBy, resolveNext>>
    /\ UNCHANGED <<done, emitter, pull, exhausted, received, atMessage>>
    /\ UNCHANGED notBridge

\* stream.on('message', ...)
OnMessage ==
    /\ emitter = "open"
    /\ emitter' = "ended"
    /\ done' = TRUE
    /\ genPc' = MessageWake(resolveNext, genPc)
    /\ wokeBy' = IF genPc' # genPc THEN "message" ELSE wokeBy
    /\ atMessage' = chunks
    /\ UNCHANGED <<chunks, resolveNext, pull, exhausted, fired, received, buffered>>
    /\ UNCHANGED notBridge

\* The transport fails after the stream has started: the SDK emits 'error'.
\* stream() registers handlers for 'text' and 'message' only.
OnError ==
    /\ emitter = "open"
    /\ emitter' = "errored"
    /\ UNCHANGED <<chunks, resolveNext, done, genPc, pull, exhausted,
                   fired, received, buffered, atMessage, wokeBy>>
    /\ UNCHANGED notBridge

BridgeNext ==
    \/ Pull
    \/ Resume
    \/ \E t \in Texts : OnText(t)
    \/ OnMessage
    \/ OnError


(***************************************************************************)
(* BaseProvider.withRetry                                                  *)
(***************************************************************************)
\* a value that is undefined
Undefined == [undefined |-> TRUE]

\* maxRetries: number = 3
DefaultMaxRetries == 3

\* "Max retries exceeded"
Msg_MaxRetriesExceeded ==
    <<"M","a","x"," ","r","e","t","r","i","e","s"," ","e","x","c","e","e","d","e","d">>

\* new Error('Max retries exceeded'): thrown by no invocation (id 0)
MaxRetriesExceeded ==
    [message |-> Msg_MaxRetriesExceeded, id |-> 0, wrapped |-> FALSE]

\* The arguments withRetry may be called with: maxRetries left out, or a count
RetryArgs ==
    {Undefined} \cup {[n |-> k] : k \in 0..MaxAttemptsBound}

\* The default parameter value applies when the argument is undefined
EffectiveMaxRetries(arg) ==
    IF arg = Undefined THEN DefaultMaxRetries ELSE arg.n

\* for (let attempt = 0; attempt < maxRetries; attempt++)
RetryLoopGuard_OffByOne(a, m) == a <= m
RetryLoopGuard(a, m) == a < m

\* Math.pow(2, attempt) * 1000
Backoff_Linear(a) == (a + 1) * 1000
Backoff(a) == (2 ^ a) * 1000

\* lastError = error instanceof Error ? error : new Error(String(error))
\* id: the invocation that threw it; wrapped: a new Error object was made
AsError(t, k) ==
    [message |-> t.text, id |-> k, wrapped |-> ~t.isError]

\* return await operation()  -- the operation resolves
OperationReturns(v) ==
    /\ rPc = "loop"
    /\ RetryLoopGuard(attempt, maxRetries)
    /\ calls' = calls + 1
    /\ attempts' = Append(attempts, [threw |-> FALSE, value |-> v])
    /\ rPc' = "returned"
    /\ rResult' = [value |-> v, id |-> calls + 1]
    /\ UNCHANGED <<rArg, maxRetries, attempt, lastError, delays>>
    /\ UNCHANGED notRetry

\* catch (error): the operation rejects with t
OperationThrows(t) ==
    /\ rPc = "loop"
    /\ RetryLoopGuard(attempt, maxRetries)
    /\ calls' = calls + 1
    /\ attempts' = Append(attempts, [threw |-> TRUE, thrown |-> t])
    /\ lastError' = AsError(t, calls + 1)
    /\ IF isNonRetryableError(lastError')
       THEN \* throw lastError
            /\ rPc' = "threw"
            /\ rResult' = lastError'
            /\ UNCHANGED delays
       ELSE \* await this.sleep(Math.pow(2, attempt) * 1000)
            /\ rPc' = "sleeping"
            /\ delays' = Append(delays, Backoff(attempt))
            /\ UNCHANGED rResult
    /\ UNCHANGED <<rArg, maxRetries, attempt>>
    /\ UNCHANGED notRetry

\* the sleep's timer fires; attempt++
SleepElapsed ==
    /\ rPc = "sleeping"
    /\ attempt' = attempt + 1
    /\ rPc' = "loop"
    /\ UNCHANGED <<rArg, maxRetries, lastError, calls, delays, attempts, rResult>>
    /\ UNCHANGED notRetry

\* the loop ends: throw lastError || new Error('Max retries exceeded')
RetriesExhausted ==
    /\ rPc = "loop"
    /\ ~RetryLoopGuard(attempt, maxRetries)
    /\ rPc' = "threw"
    /\ rResult' = IF lastError # Undefined THEN lastError ELSE MaxRetriesExceeded
    /\ UNCHANGED <<rArg, maxRetries, attempt, lastError, calls, delays, attempts>>
    /\ UNCHANGED notRetry

\* withRetry(operation, arg) is called: let lastError; attempt = 0
WithRetry(arg) ==
    /\ rPc = "idle"
    /\ rArg' = arg
    /\ maxRetries' = EffectiveMaxRetries(arg)
    /\ attempt' = 0
    /\ lastError' = Undefined
    /\ rPc' = "loop"
    /\ UNCHANGED <<rResult, calls, delays, attempts>>
    /\ UNCHANGED notRetry

RetryNext ==
    \/ \E arg \in RetryArgs : WithRetry(arg)
    \/ \E v \in Values : OperationReturns(v)
    \/ \E t \in Throwables : OperationThrows(t)
    \/ SleepElapsed
    \/ RetriesExhausted

(***************************************************************************)
(* ModelRegistry: the catalog                                              *)
(* Costs are in 1/100000 USD per 1000 tokens, temperatures in tenths.      *)
(***************************************************************************)
\* "gpt-4-turbo-preview"
Id_gpt_4_turbo_preview ==
    <<"g","p","t","-","4","-","t","u","r","b","o","-","p","r","e","v","i",
      "e","w">>
\* "gpt-4o"
Id_gpt_4o ==
    <<"g","p","t","-","4","o">>
\* "gpt-4o-mini"
Id_gpt_4o_mini ==
    <<"g","p","t","-","4","o","-","m","i","n","i">>
\* "gpt-3.5-turbo"
Id_gpt_3_5_turbo ==
    <<"g","p","t","-","3",".","5","-","t","u","r","b","o">>
\* "claude-3-5-sonnet-20241022"
Id_claude_3_5_sonnet_20241022 ==
    <<"c","l","a","u","d","e","-","3","-","5","-","s","o","n","n","e","t",
      "-","2","0","2","4","1","0","2","2">>
\* "claude-3-opus-20240229"
Id_claude_3_opus_20240229 ==
    <<"c","l","a","u","d","e","-","3","-","o","p","u","s","-","2","0","2",
      "4","0","2","2","9">>
\* "claude-3-sonnet-20240229"
Id_claude_3_sonnet_20240229 ==
    <<"c","l","a","u","d","e","-","3","-","s","o","n","n","e","t","-","2",
      "0","2","4","0","2","2","9">>
\* "claude-3-haiku-20240307"
Id_claude_3_haiku_20240307 ==
    <<"c","l","a","u","d","e","-","3","-","h","a","i","k","u","-","2","0",
      "2","4","0","3","0","7">>
\* "llama3.2"
Id_llama3_2 ==
    <<"l","l","a","m","a","3",".","2">>
\* "llama3.1:70b"
Id_llama3_1_70b ==
    <<"l","l","a","m","a","3",".","1",":","7","0","b">>
\* "codellama:34b"
Id_codellama_34b ==
    <<"c","o","d","e","l","l","a","m","a",":","3","4","b">>
\* "mistral:7b"
Id_mistral_7b ==
    <<"m","i","s","t","r","a","l",":","7","b">>

\* initializeDefaultModels(): the entries registered at construction
DefaultModels ==
    <<[id |-> Id_gpt_4_turbo_preview, provider |-> "openai",
       contextWindow |-> 128000, maxOutputTokens |-> 4096,
       supportsTools |-> TRUE, supportsVision |-> TRUE, defaultTemperature |-> 7,
       costPer1kInput |-> 1000, costPer1kOutput |-> 3000],
      [id |-> Id_gpt_4o, provider |-> "openai",
       contextWindow |-> 128000, maxOutputTokens |-> 16384,
       supportsTools |-> TRUE, supportsVision |-> TRUE, defaultTemperature |-> 7,
       costPer1kInput |-> 500, costPer1kOutput |-> 1500],
      [id |-> Id_gpt_4o_mini, provider |-> "openai",
       contextWindow |-> 128000, maxOutputTokens |-> 16384,
       supportsTools |-> TRUE, supportsVision |-> TRUE, defaultTemperature |-> 7,
       costPer1kInput |-> 15, costPer1kOutput |-> 60],
      [id |-> Id_gpt_3_5_turbo, provider |-> "openai",
       contextWindow |-> 16385, maxOutputTokens |-> 4096,
       supportsTools |-> TRUE, supportsVision |-> FALSE, defaultTemperature |-> 7,
       costPer1kInput |-> 50, costPer1kOutput |-> 150],
      [id |-> Id_claude_3_5_sonnet_20241022, provider |-> "anthropic",
       contextWindow |-> 200000, maxOutputTokens |-> 8192,
       supportsTools |-> TRUE, supportsVision |-> TRUE, defaultTemperature |-> 7,
       costPer1kInput |-> 300, costPer1kOutput |-> 1500],
      [id |-> Id_claude_3_opus_20240229, provider |-> "anthropic",
       contextWindow |-> 200000, maxOutputTokens |-> 4096,
       supportsTools |-> TRUE, supportsVision |-> TRUE, defaultTemperature |-> 7,
       costPer1kInput |-> 1500, costPer1kOutput |-> 7500],
      [id |-> Id_claude_3_sonnet_20240229, provider |-> "anthropic",
       contextWindow |-> 200000, maxOutputTokens |-> 4096,
       supportsTools |-> TRUE, supportsVision |-> TRUE, defaultTemperature |-> 7,
       costPer1kInput |-> 300, costPer1kOutput |-> 1500],
      [id |-> Id_claude_3_haiku_20240307, provider |-> "anthropic",
       contextWindow |-> 200000, maxOutputTokens |-> 4096,
       supportsTools |-> TRUE, supportsVision |-> TRUE, defaultTemperature |-> 7,
       costPer1kInput |-> 25, costPer1kOutput |-> 125],
      [id |-> Id_llama3_2, provider |-> "local",
       contextWindow |-> 8192, maxOutputTokens |-> 2048,
       supportsTools |-> FALSE, supportsVision |-> FALSE, defaultTemperature |-> 8],
      [id |-> Id_llama3_1_70b, provider |-> "local",
       contextWindow |-> 128000, maxOutputTokens |-> 4096,
       supportsTools |-> TRUE, supportsVision |-> FALSE, defaultTemperature |-> 8],
      [id |-> Id_codellama_34b, provider |-> "local",
       contextWindow |-> 16384, maxOutputTokens |-> 2048,
       supportsTools |-> FALSE, supportsVision |-> FALSE, defaultTemperature |-> 2],
      [id |-> Id_mistral_7b, provider |-> "local",
       contextWindow |-> 8192, maxOutputTokens |-> 2048,
       supportsTools |-> FALSE, supportsVision |-> FALSE, defaultTemperature |-> 7]>>

\* "gpt-5"
Id_gpt_5 ==
    <<"g","p","t","-","5">>
\* "claude-next"
Id_claude_next ==
    <<"c","l","a","u","d","e","-","n","e","x","t">>
\* "mixtral"
Id_mixtral ==
    <<"m","i","x","t","r","a","l">>
\* "gpt4"
Id_gpt4 ==
    <<"g","p","t","4">>

\* The model ids a call may name. prefix records, by inspection of the text,
\* whether it starts with "gpt-" or "claude-"; the model of the code never
\* reads it.
ModelIdInputs ==
    {[text |-> Id_gpt_4o, prefix |-> "gpt-"],
     [text |-> Id_claude_3_opus_20240229, prefix |-> "claude-"],
     [text |-> Id_gpt_5, prefix |-> "gpt-"],
     [text |-> Id_claude_next, prefix |-> "claude-"],
     [text |-> Id_mixtral, prefix |-> "other"],
     [text |-> Id_gpt4, prefix |-> "other"],
     [text |-> <<>>, prefix |-> "other"]}

\* The entries callers may register: an id of the constructor's table under
\* another provider, and new ids whose prefix names another provider
RegisterInputs ==
    {[id |-> Id_gpt_4o, provider |-> "local",
      contextWindow |-> 8192, maxOutputTokens |-> 2048,
      supportsTools |-> FALSE, supportsVision |-> FALSE, defaultTemperature |-> 8],
     [id |-> Id_gpt_5, provider |-> "anthropic",
      contextWindow |-> 200000, maxOutputTokens |-> 8192,
      supportsTools |-> TRUE, supportsVision |-> TRUE, defaultTemperature |-> 7,
      costPer1kInput |-> 300, costPer1kOutput |-> 1500],
     [id |-> Id_mixtral, provider |-> "custom",
      contextWindow |-> 32768, maxOutputTokens |-> 4096,
      supportsTools |-> FALSE, supportsVision |-> FALSE, defaultTemperature |-> 7]}

\* register(model): this.models.set(model.id, model)
\* (the first definition keeps the fields of the entry it replaces)
RegisterInto_Merge(ms, model) ==
    [x \in DOMAIN ms \cup {model.id} |->
        IF x = model.id
        THEN IF x \in DOMAIN ms THEN model @@ ms[x] ELSE model
        ELSE ms[x]]
RegisterInto(ms, model) ==
    [x \in DOMAIN ms \cup {model.id} |->
        IF x = model.id THEN model ELSE ms[x]]

RECURSIVE RegisterAll(_, _)
RegisterAll(ms, list) ==
    IF list = <<>> THEN ms
    ELSE RegisterAll(RegisterInto(ms, Head(list)), Tail(list))

\* the catalog after the constructor has run
InitialModels == RegisterAll(<<>>, DefaultModels)

\* get(modelId): this.models.get(modelId)
ModelsGet(modelId) ==
    IF modelId \in DOMAIN models THEN models[modelId] ELSE Undefined

(***************************************************************************)
(* NodeManager: the dispatcher                                             *)
(***************************************************************************)
\* type ProviderType
ProviderTypes == {"openai", "anthropic", "local", "custom"}

\* an optional argument that is present
Some(x) == [v |-> x]

\* "gpt-"
Prefix_gpt ==
    <<"g","p","t","-">>
\* "claude-"
Prefix_claude ==
    <<"c","l","a","u","d","e","-">>

\* this.providers.get(type)
ProvidersGet(type) ==
    IF type \in DOMAIN providers THEN providers[type] ELSE Undefined

\* getProviderForModel(modelId)
getProviderForModel_PrefixFirst(modelId) ==
    IF StartsWith(modelId, Prefix_gpt) THEN ProvidersGet("openai")
    ELSE IF StartsWith(modelId, Prefix_claude) THEN ProvidersGet("anthropic")
    ELSE IF ModelsGet(modelId) = Undefined THEN ProvidersGet("local")
    ELSE ProvidersGet(ModelsGet(modelId).provider)
getProviderForModel(modelId) ==
    LET modelInfo == ModelsGet(modelId) IN
    IF modelInfo = Undefined
    THEN IF StartsWith(modelId, Prefix_gpt) THEN ProvidersGet("openai")
         ELSE IF StartsWith(modelId, Prefix_claude) THEN ProvidersGet("anthropic")
         ELSE ProvidersGet("local")
    ELSE ProvidersGet(modelInfo.provider)

\* getDefaultProvider()
\* A variant that falls back to any initialized adapter when the default kind
\* has none; the code does not do this.
getDefaultProvider_AnyInitialized ==
    IF defaultProvider \in DOMAIN providers THEN providers[defaultProvider]
    ELSE IF DOMAIN providers = {} THEN Undefined
    ELSE providers[CHOOSE k \in DOMAIN providers : TRUE]

getDefaultProvider == ProvidersGet(defaultProvider)

\* resolveProvider(modelId?, preferredProvider?): each if tests truthiness,
\* and an empty string is falsy
resolveProvider_ModelFirst(modelId, preferredProvider) ==
    IF modelId # Undefined /\ modelId.v # <<>>
    THEN getProviderForModel(modelId.v)
    ELSE IF preferredProvider # Undefined
         THEN ProvidersGet(preferredProvider.v)
         ELSE getDefaultProvider
resolveProvider(modelId, preferredProvider) ==
    IF preferredProvider # Undefined
    THEN ProvidersGet(preferredProvider.v)
    ELSE IF modelId # Undefined /\ modelId.v # <<>>
         THEN getProviderForModel(modelId.v)
         ELSE getDefaultProvider

\* what a configuration call did: threw is the message of the Error thrown
ConfigRecord(op, type, threw) ==
    [op |-> op, type |-> type, threw |-> threw,
     providersBefore |-> DOMAIN providers, defaultBefore |-> defaultProvider]

\* initializeProvider(type, config)
InitializeProvider(type) ==
    /\ IF type \in {"openai", "anthropic", "local"}
       THEN \* this.providers.set(type, provider)
            /\ providers' = [k \in DOMAIN providers \cup {type} |->
                               IF k = type THEN [type |-> type] ELSE providers[k]]
            /\ dConfig' = ConfigRecord("initializeProvider", type, Undefined)
       ELSE \* throw new Error(`Unknown provider type: ${type}`)
            /\ UNCHANGED providers
            /\ dConfig' = ConfigRecord("initializeProvider", type,
                                       Some(<<"Unknown provider type: ", type>>))
    /\ dCall' = Undefined
    /\ UNCHANGED <<defaultProvider, models>>
    /\ UNCHANGED notDispatcher

\* setDefaultProvider(type)
SetDefaultProvider_Unchecked(type) ==
    /\ defaultProvider' = type
    /\ dConfig' = ConfigRecord("setDefaultProvider", type,
                               IF type \in DOMAIN providers THEN Undefined
                               ELSE Some(<<"Provider ", type, " not initialized">>))
    /\ dCall' = Undefined
    /\ UNCHANGED <<providers, models>>
    /\ UNCHANGED notDispatcher
SetDefaultProvider(type) ==
    /\ IF type \in DOMAIN providers
       THEN /\ defaultProvider' = type
            /\ dConfig' = ConfigRecord("setDefaultProvider", type, Undefined)
       ELSE \* throw new Error(`Provider ${type} not initialized`)
            /\ UNCHANGED defaultProvider
            /\ dConfig' = ConfigRecord("setDefaultProvider", type,
                              Some(<<"Provider ", type, " not initialized">>))
    /\ dCall' = Undefined
    /\ UNCHANGED <<providers, models>>
    /\ UNCHANGED notDispatcher

\* getModelRegistry().register(model)
Register(model) ==
    /\ models' = RegisterInto(models, model)
    /\ dCall' = Undefined
    /\ dConfig' = Undefined
    /\ UNCHANGED <<providers, defaultProvider>>
    /\ UNCHANGED notDispatcher

\* the options of a call: model and provider, each given or left out
CallOptions ==
    { [model |-> m, provider |-> p] :
        m \in {Undefined} \cup {Some(i.text) : i \in ModelIdInputs},
        p \in {Undefined} \cup {Some(k) : k \in ProviderTypes} }

\* what the adapter's complete (its response) or stream (its chunks, then the
\* end) may do once invoked: return, throw an Error, throw something else
AdapterOutcomes ==
    { [kind |-> "returned", value |-> "v1"],
      [kind |-> "threw", error |-> [isError |-> TRUE, message |-> "boom"]],
      [kind |-> "threw", error |-> [isError |-> FALSE, message |-> "rate limit"]] }

\* new Error('No provider available for completion' / '... for streaming')
NoProviderError(op) ==
    [isError |-> TRUE,
     message |-> IF op = "complete" THEN "No provider available for completion"
                 ELSE "No provider available for streaming"]

\* if (!provider) throw new Error(...);
\* return provider.complete(messages, options) / yield* provider.stream(...):
\* the adapters invoked, in order, and what the caller observes, r being
\* what the adapter does when invoked
Forward_Fallback(op, provider, r) ==
    IF provider = Undefined
    THEN IF getDefaultProvider = Undefined
         THEN [invoked |-> <<>>,
               surfaced |-> [kind |-> "threw", error |-> NoProviderError(op)]]
         ELSE [invoked |-> <<getDefaultProvider.type>>, surfaced |-> r]
    ELSE [invoked |-> <<provider.type>>, surfaced |-> r]
Forward(op, provider, r) ==
    IF provider = Undefined
    THEN [invoked |-> <<>>,
          surfaced |-> [kind |-> "threw", error |-> NoProviderError(op)]]
    ELSE [invoked |-> <<provider.type>>, surfaced |-> r]

\* complete(messages, options) and stream(messages, options):
\* const provider = this.resolveProvider(options?.model, options?.provider)
\* if (!provider) throw new Error('No provider available for ...')
Dispatch(op, o, r) ==
    LET provider == resolveProvider(o.model, o.provider)
        f == Forward(op, provider, r)
    IN  /\ dCall' = [op |-> op, model |-> o.model, provider |-> o.provider,
                     adapter |-> provider,
                     threw |-> IF provider = Undefined
                               THEN "No provider available" ELSE "none",
                     invoked |-> f.invoked,
                     adapterDid |-> IF f.invoked = <<>> THEN Undefined ELSE r,
                     surfaced |-> f.surfaced]
        /\ dConfig' = Undefined
        /\ UNCHANGED <<providers, defaultProvider, models>>
        /\ UNCHANGED notDispatcher

Complete(o, r) == Dispatch("complete", o, r)

Stream(o, r) == Dispatch("stream", o, r)

DispatcherNext ==
    \/ \E type \in ProviderTypes : InitializeProvider(type)
    \/ \E type \in ProviderTypes : SetDefaultProvider(type)
    \/ \E model \in RegisterInputs : Register(model)
    \/ \E o \in CallOptions, r \in AdapterOutcomes : Complete(o, r)
    \/ \E o \in CallOptions, r \in AdapterOutcomes : Stream(o, r)

(***************************************************************************)
(* NodeManager.listAllModels and NodeManager.validateAllCredentials         *)
(***************************************************************************)
\* what an adapter's listModels() may do
ListOutcomes ==
    { [kind |-> "returned", value |-> <<"m1">>],
      [kind |-> "returned", value |-> <<>>],
      [kind |-> "threw", error |-> [isError |-> TRUE, message |-> "boom"]] }

\* what an adapter's validateCredentials() may do
ValidateOutcomes ==
    { [kind |-> "returned", value |-> TRUE],
      [kind |-> "returned", value |-> FALSE],
      [kind |-> "threw", error |-> [isError |-> TRUE, message |-> "boom"]] }

\* try { result.set(type, await ...) } catch { result.set(type, [] / false) }:
\* the entry stored for an adapter whose call did d
EntryFor_Optimistic(op, d) ==
    IF d.kind = "threw"
    THEN IF op = "listAllModels" THEN <<"unknown">> ELSE TRUE
    ELSE d.value
EntryFor(op, d) ==
    IF d.kind = "threw"
    THEN IF op = "listAllModels" THEN <<>> ELSE FALSE
    ELSE d.value

\* for (const [type, provider] of this.providers): the iterator moves to the
\* next entry and the adapter is called, or the loop ends and result is
\* returned. A Map iterates in insertion order and also reaches the entries
\* inserted while the loop is suspended; providers does not keep the order
\* of insertion, so the next entry is any entry not passed yet.
AggregateLoop(visited, result) ==
    IF DOMAIN providers \subseteq visited
    THEN /\ aPc' = "returned"
         /\ aCurrent' = Undefined
         /\ aVisited' = visited
         /\ aResult' = result
         /\ aAtReturn' = DOMAIN providers
    ELSE \E type \in DOMAIN providers \ visited :
            /\ aPc' = "awaiting"
            /\ aCurrent' = Some(type)
            /\ aVisited' = visited \cup {type}
            /\ aResult' = result
            /\ UNCHANGED aAtReturn

\* listAllModels() / validateAllCredentials() is called
AggregateCall(op) ==
    /\ aPc = "idle"
    /\ aOp' = op
    /\ AggregateLoop({}, <<>>)
    /\ UNCHANGED aDid
    /\ UNCHANGED dispatcherVars
    /\ UNCHANGED notAggregate

\* the awaited listModels() / validateCredentials() settles as d
AdapterSettles(op, d) ==
    /\ aPc = "awaiting"
    /\ aOp = op
    /\ aDid' = [k \in DOMAIN aDid \cup {aCurrent.v} |->
                    IF k = aCurrent.v THEN d ELSE aDid[k]]
    /\ AggregateLoop(aVisited,
                     [k \in DOMAIN aResult \cup {aCurrent.v} |->
                        IF k = aCurrent.v THEN EntryFor(aOp, d) ELSE aResult[k]])
    /\ UNCHANGED aOp
    /\ UNCHANGED dispatcherVars
    /\ UNCHANGED notAggregate

AggregateNext ==
    \/ \E type \in ProviderTypes : InitializeProvider(type)
    \/ \E op \in {"listAllModels", "validateAllCredentials"} : AggregateCall(op)
    \/ \E d \in ListOutcomes : AdapterSettles("listAllModels", d)
    \/ \E d \in ValidateOutcomes : AdapterSettles("validateAllCredentials", d)

(***************************************************************************)
(* parseResponse of the three adapters. A JavaScript value that may be     *)
(* missing is Undefined, Null or Some(x); NaN is the sum with a missing     *)
(* operand.                                                                *)
(***************************************************************************)
Null == [null |-> TRUE]

NaN == [nan |-> TRUE]

\* x || d for a string x that may be missing
OrElseStr(x, d) ==
    IF x = Undefined \/ x = Null THEN d
    ELSE IF x.v = "" THEN d
    ELSE x

\* x || d for a number x that may be missing
OrElseNum(x, d) ==
    IF x = Undefined \/ x = Null \/ x = NaN THEN d
    ELSE IF x.v = 0 THEN d
    ELSE x

\* a + b for numbers that may be missing
Plus(a, b) ==
    IF a = Undefined \/ b = Undefined \/ a = NaN \/ b = NaN THEN NaN
    ELSE Some(a.v + b.v)

\* the finish reasons of CompletionResponse
FinishReasons == {"stop", "length", "tool_calls", "content_filter", "error"}

\* finish_reason / stop_reason as a vendor may send it
VendorReasons ==
    {Undefined} \cup
    { Some(x) : x \in {"stop", "length", "tool_calls", "content_filter",
                       "end_turn", "max_tokens", "tool_use", "eos"} }

\* token counts as a vendor may send them
VendorCounts == {Undefined, Some(0), Some(3), Some(4)}

VendorTotals == {Undefined, Some(7), Some(9)}

\* usage of an OpenAI or Local response
VendorUsages ==
    {Undefined} \cup
    { [prompt_tokens |-> pt, completion_tokens |-> ct, total_tokens |-> tt] :
        pt \in VendorCounts, ct \in VendorCounts, tt \in VendorTotals }

\* choices of an OpenAI or Local response
VendorChoices ==
    {Undefined, Some(<<>>)} \cup
    { Some(<< [message |-> [content |-> c], finish_reason |-> fr] >>) :
        c \in {Null, Some("hi")}, fr \in VendorReasons }

\* the responses an OpenAI or Local server may send
ChatResponses ==
    { [id |-> i, model |-> Some("m"), choices |-> ch, usage |-> u] :
        i \in {Undefined, Some("r1")}, ch \in VendorChoices,
        u \in VendorUsages }

\* the responses the Anthropic API may send
AnthropicResponses ==
    { [id |-> Some("r1"), model |-> Some("m"), content |-> c,
       stop_reason |-> sr, usage |-> u] :
        c \in {Undefined, Some(<<>>),
               Some(<< [type |-> "text", text |-> "a"],
                       [type |-> "tool_use", id |-> "t1", name |-> "f"],
                       [type |-> "text", text |-> "b"] >>)},
        sr \in VendorReasons,
        u \in {Undefined} \cup
              { [input_tokens |-> pt, output_tokens |-> ct] :
                  pt \in VendorCounts, ct \in VendorCounts } }

\* a TypeError leaves parseResponse
ParseThrows == [threw |-> TRUE]

\* OpenAIProvider.mapFinishReason(reason)
OpenAIMapFinishReason(reason) ==
    CASE reason = "stop" -> "stop"
      [] reason = "length" -> "length"
      [] reason = "tool_calls" -> "tool_calls"
      [] reason = "content_filter" -> "content_filter"
      [] OTHER -> "stop"

\* AnthropicProvider.mapFinishReason(reason)
AnthropicMapFinishReason(reason) ==
    CASE reason = Some("end_turn") -> "stop"
      [] reason = Some("max_tokens") -> "length"
      [] reason = Some("tool_use") -> "tool_calls"
      [] OTHER -> "stop"

\* OpenAIProvider.parseResponse(response, latencyMs)
OpenAIParseResponse(r, latencyMs) ==
    IF r.choices = Undefined \/ r.usage = Undefined THEN ParseThrows
    ELSE LET choice == IF r.choices.v = <<>> THEN Undefined
                       ELSE r.choices.v[1] IN
         [threw |-> FALSE,
          id |-> r.id,
          model |-> r.model,
          content |-> IF choice = Undefined THEN Some("")
                      ELSE OrElseStr(choice.message.content, Some("")),
          finishReason |->
              OpenAIMapFinishReason(
                  IF choice = Undefined THEN "stop"
                  ELSE OrElseStr(choice.finish_reason, Some("stop")).v),
          usage |-> [promptTokens |-> r.usage.prompt_tokens,
                     completionTokens |-> r.usage.completion_tokens,
                     totalTokens |-> r.usage.total_tokens],
          latencyMs |-> latencyMs]

\* LocalProvider.parseResponse(response, latencyMs); uuid is what
\* crypto.randomUUID() returns
LocalParseResponse(r, latencyMs, uuid) ==
    IF r.choices = Undefined THEN ParseThrows
    ELSE LET choice == IF r.choices.v = <<>> THEN Undefined
                       ELSE r.choices.v[1]
             usage == IF r.usage = Undefined
                      THEN [prompt_tokens |-> Undefined,
                            completion_tokens |-> Undefined,
                            total_tokens |-> Undefined]
                      ELSE r.usage
         IN
         [threw |-> FALSE,
          id |-> OrElseStr(r.id, Some(uuid)),
          model |-> r.model,
          content |-> IF choice = Undefined THEN Some("")
                      ELSE OrElseStr(choice.message.content, Some("")),
          finishReason |->
              IF choice = Undefined THEN "stop"
              ELSE OrElseStr(choice.finish_reason, Some("stop")).v,
          usage |-> [promptTokens |-> OrElseNum(usage.prompt_tokens, Some(0)),
                     completionTokens |->
                         OrElseNum(usage.completion_tokens, Some(0)),
                     totalTokens |-> OrElseNum(usage.total_tokens, Some(0))],
          latencyMs |-> latencyMs]

\* r.content.filter(c => c.type === 'text').map(c => c.text).join('')
RECURSIVE JoinText(_)
JoinText(content) ==
    IF content = <<>> THEN <<>>
    ELSE IF Head(content).type = "text"
         THEN <<Head(content).text>> \o JoinText(Tail(content))
         ELSE JoinText(Tail(content))

\* AnthropicProvider.parseResponse(response, latencyMs)
AnthropicParseResponse(r, latencyMs) ==
    IF r.content = Undefined \/ r.usage = Undefined THEN ParseThrows
    ELSE [threw |-> FALSE,
          id |-> r.id,
          model |-> r.model,
          content |-> Some(JoinText(r.content.v)),
          finishReason |-> AnthropicMapFinishReason(r.stop_reason),
          usage |-> [promptTokens |-> r.usage.input_tokens,
                     completionTokens |-> r.usage.output_tokens,
                     totalTokens |-> Plus(r.usage.input_tokens,
                                          r.usage.output_tokens)],
          latencyMs |-> latencyMs]

\* a call of parseResponse of one adapter
ParseOpenAI(r) ==
    /\ fCall = Undefined
    /\ fCall' = [fn |-> "parseResponse", adapter |-> "openai", in |-> r,
                 out |-> OpenAIParseResponse(r, 12)]
    /\ UNCHANGED notTranslation

ParseLocal(r, uuid) ==
    /\ fCall = Undefined
    /\ fCall' = [fn |-> "parseResponse", adapter |-> "local", in |-> r,
                 out |-> LocalParseResponse(r, 12, uuid)]
    /\ UNCHANGED notTranslation

ParseAnthropic(r) ==
    /\ fCall = Undefined
    /\ fCall' = [fn |-> "parseResponse", adapter |-> "anthropic", in |-> r,
                 out |-> AnthropicParseResponse(r, 12)]
    /\ UNCHANGED notTranslation

ParseNext ==
    \/ \E r \in ChatResponses : ParseOpenAI(r)
    \/ \E r \in ChatResponses, uuid \in {"uuid-1", "uuid-2"} : ParseLocal(r, uuid)
    \/ \E r \in AnthropicResponses : ParseAnthropic(r)

(***************************************************************************)
(* OpenAIProvider.stream and LocalProvider.stream: generators that pull    *)
(* from the transport. The body of a Local response is ASCII text, which   *)
(* TextDecoder.decode maps byte for character.                             *)
(***************************************************************************)
\* 'data: '
DataPrefix ==
    <<"d","a","t","a",":"," ">>
\* '[DONE]'
DoneMarker ==
    <<"[","D","O","N","E","]">>
\* a frame that parses: {"id":"1","choices":[]}
Json_1 ==
    <<"{","\"","i","d","\"",":","\"","1","\"",",","\"","c","h","o","i","c",
      "e","s","\"",":","[","]","}">>
\* a frame that parses: {"id":"2","choices":[]}
Json_2 ==
    <<"{","\"","i","d","\"",":","\"","2","\"",",","\"","c","h","o","i","c",
      "e","s","\"",":","[","]","}">>
\* a frame with a first choice: {"id":"3","choices":[{"delta":{},"finish
\* ..._reason":"eos"}]}
Json_3 ==
    <<"{","\"","i","d","\"",":","\"","3","\"",",","\"","c","h","o","i","c",
      "e","s","\"",":","[","{","\"","d","e","l","t","a","\"",":","{","}",
      ",","\"","f","i","n","i","s","h","_","r","e","a","s","o","n","\"",":",
      "\"","e","o","s","\"","}","]","}">>
\* a frame that does not parse: {"id":
Json_Bad ==
    <<"{","\"","i","d","\"",":">>
\* one frame, a blank line, [DONE]
Body_OneThenDone ==
    <<"d","a","t","a",":"," ","{","\"","i","d","\"",":","\"","1","\"",",",
      "\"","c","h","o","i","c","e","s","\"",":","[","]","}","\n","\n","d",
      "a","t","a",":"," ","[","D","O","N","E","]","\n","\n">>
\* a malformed frame between two good ones, no [DONE]
Body_BadBetween ==
    <<"d","a","t","a",":"," ","{","\"","i","d","\"",":","\"","1","\"",",",
      "\"","c","h","o","i","c","e","s","\"",":","[","]","}","\n","d","a",
      "t","a",":"," ","{","\"","i","d","\"",":","\n","d","a","t","a",":",
      " ","{","\"","i","d","\"",":","\"","2","\"",",","\"","c","h","o","i",
      "c","e","s","\"",":","[","]","}","\n">>
\* a frame after [DONE]
Body_AfterDone ==
    <<"d","a","t","a",":"," ","{","\"","i","d","\"",":","\"","1","\"",",",
      "\"","c","h","o","i","c","e","s","\"",":","[","]","}","\n","d","a",
      "t","a",":"," ","[","D","O","N","E","]","\n","d","a","t","a",":"," ",
      "{","\"","i","d","\"",":","\"","2","\"",",","\"","c","h","o","i","c",
      "e","s","\"",":","[","]","}","\n">>

\* the response bodies the local server may send
\* a frame that carries a finish reason, then [DONE]
Body_Finish ==
    <<"d","a","t","a",":"," ","{","\"","i","d","\"",":","\"","3","\"",",",
      "\"","c","h","o","i","c","e","s","\"",":","[","{","\"","d","e","l",
      "t","a","\"",":","{","}",",","\"","f","i","n","i","s","h","_","r","e",
      "a","s","o","n","\"",":","\"","e","o","s","\"","}","]","}","\n","d",
      "a","t","a",":"," ","[","D","O","N","E","]","\n">>

\* a frame that parses but has no choices: {"id":"4"}
Json_NoChoices ==
    <<"{","\"","i","d","\"",":","\"","4","\"","}">>
\* a frame without choices in front of a good one
Body_NoChoices ==
    <<"d","a","t","a",":"," ","{","\"","i","d","\"",":","\"","4","\"","}",
      "\n","d","a","t","a",":"," ","{","\"","i","d","\"",":","\"","2","\"",
      ",","\"","c","h","o","i","c","e","s","\"",":","[","]","}","\n">>
\* two frames, the last one without its line terminator
Body_Unterminated ==
    <<"d","a","t","a",":"," ","{","\"","i","d","\"",":","\"","1","\"",",",
      "\"","c","h","o","i","c","e","s","\"",":","[","]","}","\n","d","a",
      "t","a",":"," ","{","\"","i","d","\"",":","\"","2","\"",",","\"","c",
      "h","o","i","c","e","s","\"",":","[","]","}">>

Bodies ==
    {Body_OneThenDone, Body_BadBetween, Body_AfterDone, Body_Finish,
     Body_Unterminated, Body_NoChoices}

\* reader.read() resolves with any number of the bytes that are left
ReadSizes == UNION {1..Len(b) : b \in Bodies}

\* the items the OpenAI SDK's stream may produce: id and choices[0], with
\* its delta.content and finish_reason
OpenAIItems ==
    { [id |-> "1", choice |-> [content |-> Some("a"), finish_reason |-> Undefined]],
      [id |-> "2", choice |-> [content |-> Undefined, finish_reason |-> Some("eos")]],
      [id |-> "3", choice |-> Undefined] }

\* JSON.parse(data) and chunk.choices[0], both inside the try: the frames
\* above for which neither throws, as id and choices[0]. Json_Bad does not
\* parse; Json_NoChoices parses, and chunk.choices[0] throws a TypeError.
\* (the first definition makes something of the frame that does not parse)
JsonParse_Lenient(data) ==
    IF data = Json_1 THEN [ok |-> TRUE, id |-> "1", choice |-> Undefined]
    ELSE IF data = Json_2 THEN [ok |-> TRUE, id |-> "2", choice |-> Undefined]
    ELSE IF data = Json_3
         THEN [ok |-> TRUE, id |-> "3",
               choice |-> [content |-> Undefined, finish_reason |-> Some("eos")]]
         ELSE [ok |-> TRUE, id |-> "", choice |-> Undefined]
JsonParse(data) ==
    IF data = Json_1 THEN [ok |-> TRUE, id |-> "1", choice |-> Undefined]
    ELSE IF data = Json_2 THEN [ok |-> TRUE, id |-> "2", choice |-> Undefined]
    ELSE IF data = Json_3
         THEN [ok |-> TRUE, id |-> "3",
               choice |-> [content |-> Undefined, finish_reason |-> Some("eos")]]
         ELSE [ok |-> FALSE]

\* OpenAIProvider.stream: the chunk yielded for an item
OpenAIChunk(item) ==
    [id |-> item.id,
     content |-> IF item.choice = Undefined THEN ""
                 ELSE OrElseStr(item.choice.content, Some("")).v,
     finishReason |->
         IF item.choice = Undefined THEN Undefined
         ELSE IF OrElseStr(item.choice.finish_reason, Undefined) = Undefined
              THEN Undefined
              ELSE Some(OpenAIMapFinishReason(item.choice.finish_reason.v))]

\* LocalProvider.stream: the chunk yielded for a parsed frame
LocalChunk(parsed) ==
    [id |-> parsed.id,
     content |-> IF parsed.choice = Undefined THEN ""
                 ELSE OrElseStr(parsed.choice.content, Some("")).v,
     finishReason |-> IF parsed.choice = Undefined THEN Undefined
                      ELSE parsed.choice.finish_reason]

\* String.prototype.split('\n')
RECURSIVE Split(_)
Split(s) ==
    IF \E i \in 1..Len(s) : s[i] = "\n"
    THEN LET i == CHOOSE i \in 1..Len(s) :
                    s[i] = "\n" /\ \A j \in 1..(i - 1) : s[j] # "\n"
         IN  <<SubSeq(s, 1, i - 1)>> \o Split(SubSeq(s, i + 1, Len(s)))
    ELSE <<s>>

\* buffer += decoder.decode(value, { stream: true })
Decode_DropsBuffer(buf, value) == value
Decode(buf, value) == buf \o value

\* the loop without the test for the [DONE] marker
RECURSIVE LocalRun_IgnoresDone(_)
LocalRun_IgnoresDone(ls) ==
    IF ls = <<>> THEN [kind |-> "needRead"]
    ELSE LET line == Head(ls) IN
         IF StartsWith(line, DataPrefix)
         THEN LET data == SubSeq(line, 7, Len(line)) IN
              IF JsonParse(data).ok
              THEN [kind |-> "yield",
                    chunk |-> LocalChunk(JsonParse(data)),
                    rest |-> Tail(ls)]
              ELSE LocalRun_IgnoresDone(Tail(ls))
         ELSE LocalRun_IgnoresDone(Tail(ls))

\* for (const line of lines) { ... }: the run of the loop over the lines left,
\* up to its first yield, its return or its end
RECURSIVE LocalRun(_)
LocalRun(ls) ==
    IF ls = <<>> THEN [kind |-> "needRead"]
    ELSE LET line == Head(ls) IN
         IF StartsWith(line, DataPrefix)
         THEN LET data == SubSeq(line, 7, Len(line)) IN
              IF data = DoneMarker THEN [kind |-> "return"]
              ELSE IF JsonParse(data).ok
                   THEN [kind |-> "yield",
                         chunk |-> LocalChunk(JsonParse(data)),
                         rest |-> Tail(ls)]
                   ELSE LocalRun(Tail(ls))
         ELSE LocalRun(Tail(ls))

\* the generator throws: the consumer's pending next() rejects; Local's
\* finally block releases the reader's lock if the reader was acquired
GenThrows(e) ==
    /\ sPc' = "threw"
    /\ sPull' = "idle"
    /\ sOutcome' = "error"
    /\ sError' = e
    /\ locked' = FALSE
    /\ releases' = IF locked THEN releases + 1 ELSE releases

\* the generator returns: the consumer's next() resolves {done: true};
\* Local's finally block releases the reader's lock if it was acquired.
\* (The first definition returns without the finally block.)
GenReturns_KeepsLock ==
    /\ sPc' = "finished"
    /\ sPull' = "idle"
    /\ sOutcome' = "done"
    /\ UNCHANGED <<sError, locked, releases>>
GenReturns ==
    /\ sPc' = "finished"
    /\ sPull' = "idle"
    /\ sOutcome' = "done"
    /\ UNCHANGED sError
    /\ locked' = FALSE
    /\ releases' = IF locked THEN releases + 1 ELSE releases

\* yield chunk
GenYields(chunk) ==
    /\ sReceived' = Append(sReceived, chunk)
    /\ sPc' = "atYield"
    /\ sPull' = "idle"
    /\ sOutcome' = "chunk"
    /\ UNCHANGED <<locked, releases, sError>>

\* the generator asks the transport for more: the for await's next(), or
\* await reader.read(). On a transport that has failed this rejects.
GenReads ==
    IF sTransport = "failed"
    THEN GenThrows(sFault) /\ UNCHANGED sReceived
    ELSE /\ sPc' = "reading"
         /\ sPull' = "pending"
         /\ UNCHANGED <<sOutcome, sReceived, locked, releases, sError>>

\* LocalProvider.stream from the for loop over ls on
LocalContinue(ls) ==
    LET r == LocalRun(ls) IN
    IF r.kind = "yield"
    THEN lines' = r.rest /\ GenYields(r.chunk)
    ELSE IF r.kind = "return"
         THEN lines' = <<>> /\ GenReturns /\ UNCHANGED sReceived
         ELSE lines' = <<>> /\ GenReads

\* stream(messages, options) is called: the generator object exists
StreamCall(a) ==
    /\ sAdapter = "none"
    /\ genPc = "notStarted"       \* one stream call is followed at a time
    /\ sAdapter' = a
    /\ UNCHANGED <<sPc, sPull, sOutcome, sReceived, sTransport, sItems,
                   body, buffer, lines, locked, releases, sFault, sError,
                   sSent, sSplit>>
    /\ UNCHANGED notPull

\* the consumer calls next()
StreamPull ==
    /\ sAdapter # "none"
    /\ sPull = "idle"
    /\ sPc \in {"notStarted", "atYield"}
    /\ IF sPc = "notStarted"
       THEN \* await client.chat.completions.create(params) / await fetch(...)
            /\ sPc' = "opening"
            /\ sPull' = "pending"
            /\ tOpens' = tOpens + 1
            /\ UNCHANGED <<sOutcome, sReceived, lines, locked, releases,
                           sError>>
       ELSE /\ IF sAdapter = "openai"
               THEN GenReads /\ UNCHANGED lines
               ELSE LocalContinue(lines)
            /\ UNCHANGED tOpens
    /\ UNCHANGED <<sAdapter, sTransport, sItems, body, buffer, sFault, sSent, sSplit>>
    /\ UNCHANGED tDelays
    /\ UNCHANGED notPullNorStream

\* the transport opens: create() resolves to the SDK's stream; fetch resolves
\* to an ok response with a body, and response.body.getReader() locks it
OpenResolves(b) ==
    /\ sPc = "opening"
    /\ sTransport' = "open"
    /\ sPc' = "reading"
    /\ IF sAdapter = "local"
       THEN body' = b /\ sSent' = b /\ locked' = TRUE
       ELSE UNCHANGED <<body, sSent, locked>>
    /\ UNCHANGED sSplit
    /\ UNCHANGED <<sAdapter, sPull, sOutcome, sReceived, sItems, buffer, lines,
                   releases, sFault, sError>>
    /\ UNCHANGED notPull

\* "No response body"
Msg_NoResponseBody ==
    <<"N","o"," ","r","e","s","p","o","n","s","e"," ","b","o","d","y">>
\* "OpenAI SDK not installed. Run: npm install openai"
Msg_SdkNotInstalled ==
    <<"O","p","e","n","A","I"," ","S","D","K"," ","n","o","t"," ","i","n",
      "s","t","a","l","l","e","d",".">>

\* what the transport may reject with while a stream is opened or read
StreamFaults ==
    {[isError |-> TRUE, text |-> Msg_Boom, marked |-> FALSE],
     [isError |-> TRUE, text |-> Msg_RateLimit, marked |-> FALSE],
     [isError |-> FALSE, text |-> Msg_Boom, marked |-> FALSE]}

\* the Error objects stream() makes itself before the transport is open:
\* getClient's (OpenAI), and the ones for a response without a body (Local)
OwnOpenErrors(adapter) ==
    IF adapter = "openai"
    THEN {[isError |-> TRUE, text |-> Msg_SdkNotInstalled, marked |-> FALSE]}
    ELSE {[isError |-> TRUE, text |-> Msg_NoResponseBody, marked |-> FALSE]}

OpenFailures == StreamFaults \cup OwnOpenErrors("openai") \cup OwnOpenErrors("local")

\* stream() after its await of create() / fetch() has failed. The call is
\* not inside withRetry and has no catch: the generator throws. (The first
\* definition is the call as it would be inside withRetry: a failure that
\* is retryable is slept on and the transport asked again.)
StreamOpenFailed_Retried(t) ==
    IF ~isNonRetryableError(AsError(t, tOpens)) /\ tOpens < DefaultMaxRetries
    THEN /\ tDelays' = Append(tDelays, Backoff(tOpens - 1))
         /\ tOpens' = tOpens + 1
         /\ UNCHANGED <<sPc, sPull, sOutcome, sError, sTransport, locked,
                        releases>>
    ELSE /\ sTransport' = "refused"
         /\ GenThrows(t)
         /\ UNCHANGED <<tOpens, tDelays>>
StreamOpenFailed(t) ==
    /\ sTransport' = "refused"
    /\ GenThrows(t)
    /\ UNCHANGED <<tOpens, tDelays>>

\* the transport does not open: getClient() throws, create() or fetch()
\* rejects, or the local server answers with a status that is not ok or
\* without a body. Nothing catches what is thrown.
OpenFails(t) ==
    /\ sPc = "opening"
    /\ t \in StreamFaults \cup OwnOpenErrors(sAdapter)
    /\ sFault' = t
    /\ StreamOpenFailed(t)
    /\ UNCHANGED <<sAdapter, sReceived, sItems, body, buffer, lines, sSent, sSplit>>
    /\ UNCHANGED notPullNorStream

\* for await (const chunk of stream): the SDK's stream produces an item
ItemArrives(item) ==
    /\ sAdapter = "openai"
    /\ sPc = "reading"
    /\ sTransport = "open"
    /\ sItems < MaxItems
    /\ sItems' = sItems + 1
    /\ GenYields(OpenAIChunk(item))
    /\ UNCHANGED <<sAdapter, sTransport, body, buffer, lines, sFault, sSent, sSplit>>
    /\ UNCHANGED notPull

\* the SDK's stream ends
ItemsEnd ==
    /\ sAdapter = "openai"
    /\ sPc = "reading"
    /\ sTransport = "open"
    /\ sTransport' = "ended"
    /\ GenReturns
    /\ UNCHANGED <<sAdapter, sReceived, sItems, body, buffer, lines, sFault,
                   sSent, sSplit>>
    /\ UNCHANGED notPull

\* observation: the text held in the buffer is the front part of a data
\* line with a well-formed payload, whose rest is still to be read
SplitsDataLine(held, unread) ==
    /\ held # <<>>
    /\ \E p \in {Json_1, Json_2, Json_3} :
          LET line == DataPrefix \o p \o <<"\n">> IN
          /\ Len(line) <= Len(held) + Len(unread)
          /\ line = SubSeq(held \o unread, 1, Len(line))

\* reader.read() resolves with the next n bytes of the body
ReadArrives(n) ==
    /\ sAdapter = "local"
    /\ sPc = "reading"
    /\ sTransport = "open"
    /\ n \in 1..Len(body)
    /\ body' = SubSeq(body, n + 1, Len(body))
    /\ LET text == Decode(buffer, SubSeq(body, 1, n))
           all == Split(text)
       IN  \* buffer = lines.pop() || ''
           /\ buffer' = all[Len(all)]
           /\ LocalContinue(SubSeq(all, 1, Len(all) - 1))
    /\ sSplit' = (sSplit \/ SplitsDataLine(buffer', body'))
    /\ UNCHANGED <<sAdapter, sTransport, sItems, sFault, sSent>>
    /\ UNCHANGED notPull

\* reader.read() resolves {done: true}: break
ReadDone ==
    /\ sAdapter = "local"
    /\ sPc = "reading"
    /\ sTransport = "open"
    /\ body = <<>>
    /\ sTransport' = "ended"
    /\ GenReturns
    /\ UNCHANGED <<sAdapter, sReceived, sItems, body, buffer, lines, sFault,
                   sSent, sSplit>>
    /\ UNCHANGED notPull

\* the transport fails after the stream has started; a read that is pending
\* rejects
TransportFails(t) ==
    /\ sTransport = "open"
    /\ sTransport' = "failed"
    /\ sFault' = t
    /\ IF sPc = "reading"
       THEN GenThrows(t)
       ELSE UNCHANGED <<sPc, sPull, sOutcome, locked, releases, sError>>
    /\ UNCHANGED <<sAdapter, sReceived, sItems, body, buffer, lines, sSent, sSplit>>
    /\ UNCHANGED notPull

\* the consumer stops early: return() on the generator suspended at a yield
ConsumerReturns ==
    /\ sPc = "atYield"
    /\ sPull = "idle"
    /\ GenReturns
    /\ UNCHANGED <<sAdapter, sReceived, sTransport, sItems, body, buffer, lines,
                   sFault, sSent, sSplit>>
    /\ UNCHANGED notPull

PullNext ==
    \/ \E a \in {"openai", "local"} : StreamCall(a)
    \/ StreamPull
    \/ \E b \in Bodies : OpenResolves(b)
    \/ \E t \in OpenFailures : OpenFails(t)
    \/ \E item \in OpenAIItems : ItemArrives(item)
    \/ ItemsEnd
    \/ \E n \in ReadSizes : ReadArrives(n)
    \/ ReadDone
    \/ \E t \in StreamFaults : TransportFails(t)
    \/ ConsumerReturns

(***************************************************************************)
(* AnthropicProvider.formatMessages                                        *)
(***************************************************************************)
\* the messages a caller may pass: Message {role, content, toolCallId?}
MessageInputs ==
    { [role |-> r, content |-> c, toolCallId |-> Undefined] :
        r \in {"system", "user", "assistant", "tool"}, c \in {"A", "B"} }
    \cup { [role |-> "tool", content |-> c, toolCallId |-> Some("x")] :
             c \in {"A", "B"} }

RECURSIVE MessageLists(_)
MessageLists(n) ==
    IF n = 0 THEN {<<>>}
    ELSE MessageLists(n - 1) \cup
         { Append(l, m) : l \in {k \in MessageLists(n - 1) : Len(k) = n - 1},
                          m \in MessageInputs }

\* system = msg.content
SystemAssign_KeepFirst(system, content) ==
    IF system = Undefined THEN Some(content) ELSE system
SystemAssign(system, content) == Some(content)

\* for (const msg of messages) { if (msg.role === 'system') system = ...
\*                               else nonSystemMessages.push(msg) }
RECURSIVE ExtractSystem(_, _, _)
ExtractSystem(messages, system, nonSystemMessages) ==
    IF messages = <<>>
    THEN [system |-> system, nonSystemMessages |-> nonSystemMessages]
    ELSE LET msg == Head(messages) IN
         IF msg.role = "system"
         THEN ExtractSystem(Tail(messages), SystemAssign(system, msg.content),
                            nonSystemMessages)
         ELSE ExtractSystem(Tail(messages), system,
                            Append(nonSystemMessages, msg))

\* the callback of nonSystemMessages.map
FormatOne_RoleAsIs(msg) ==
    [role |-> msg.role, content |-> msg.content]
FormatOne(msg) ==
    IF msg.role = "tool"
    THEN [role |-> "user",
          content |-> << [type |-> "tool_result",
                          tool_use_id |-> msg.toolCallId,
                          content |-> msg.content] >>]
    ELSE [role |-> IF msg.role = "assistant" THEN "assistant" ELSE "user",
          content |-> msg.content]

\* formatMessages(messages): { system, messages: formatted }
AnthropicFormatMessages(messages) ==
    LET e == ExtractSystem(messages, Undefined, <<>>) IN
    [system |-> e.system,
     messages |-> [i \in 1..Len(e.nonSystemMessages) |->
                     FormatOne(e.nonSystemMessages[i])]]

\* a call of AnthropicProvider.formatMessages
FormatMessagesCall(messages) ==
    /\ fCall = Undefined
    /\ fCall' = [fn |-> "anthropic.formatMessages", in |-> messages,
                 out |-> AnthropicFormatMessages(messages)]
    /\ UNCHANGED notTranslation

FormatNext ==
    \E messages \in MessageLists(MaxMessages) : FormatMessagesCall(messages)

(***************************************************************************)
(* The vendor payloads built by complete and stream                        *)
(***************************************************************************)
\* a Tool
ToolInput ==
    [type |-> "function",
     function |-> [name |-> "f", description |-> "d", parameters |-> "p"]]

\* CompletionOptions: every field left unset or set; 0 and '' are the falsy
\* values a caller may set
OptionRecords ==
    [ model : {Undefined, Some(""), Some("m")},
      temperature : {Undefined, Some(0)},
      maxTokens : {Undefined, Some(0), Some(100)},
      topP : {Undefined, Some(0)},
      frequencyPenalty : {Undefined, Some(0)},
      presencePenalty : {Undefined, Some(0)},
      stop : {Undefined, Some(<<"s">>)},
      tools : {Undefined, Some(<<ToolInput>>)},
      toolChoice : {Undefined, Some("auto")},
      responseFormat : {Undefined, Some([type |-> "json_object"])},
      stream : {Undefined, Some(FALSE)},
      timeout : {Undefined, Some(1000)} ]

\* the options of a call: at most MaxSetOptions fields are set
OptionInputs ==
    { o \in OptionRecords :
        Cardinality({field \in DOMAIN o : o[field] # Undefined})
            <= MaxSetOptions }

\* the messages of the call
PayloadMessages ==
    << [role |-> "system", content |-> "A", toolCallId |-> Undefined],
       [role |-> "tool", content |-> "B", toolCallId |-> Some("x")] >>

\* ...(cond && { key: value }): the keys spread into the object
Spread_InjectsNull(cond, obj) == IF cond THEN obj ELSE [temperature |-> Null]
Spread(cond, obj) == IF cond THEN obj ELSE <<>>

\* getProviderDefaultModel()
ProviderDefaultModel(adapter) ==
    CASE adapter = "openai" -> "gpt-4-turbo-preview"
      [] adapter = "anthropic" -> "claude-3-5-sonnet-20241022"
      [] adapter = "local" -> "llama3.2"

\* getDefaultModel(): this.config.defaultModel || this.getProviderDefaultModel()
GetDefaultModel(adapter, defaultModel) ==
    OrElseStr(defaultModel, Some(ProviderDefaultModel(adapter))).v

\* OpenAIProvider.formatMessages: name and toolCalls are not set in the
\* messages of the call
OpenAIFormatMessages(messages) ==
    [i \in 1..Len(messages) |->
        [role |-> messages[i].role, content |-> messages[i].content]
        @@ Spread(OrElseStr(messages[i].toolCallId, Undefined) # Undefined,
                  [tool_call_id |-> messages[i].toolCallId.v])]

\* LocalProvider.formatMessages
LocalFormatMessages(messages) ==
    [i \in 1..Len(messages) |->
        [role |-> messages[i].role, content |-> messages[i].content]]

\* OpenAIProvider.formatTools
OpenAIFormatTools(tools) ==
    [i \in 1..Len(tools) |->
        [type |-> tools[i].type, function |-> tools[i].function]]

\* AnthropicProvider.formatTools
AnthropicFormatTools(tools) ==
    [i \in 1..Len(tools) |->
        [name |-> tools[i].function.name,
         description |-> tools[i].function.description,
         input_schema |-> tools[i].function.parameters]]

\* model: options?.model || this.getDefaultModel()
ModelKey(adapter, o, defaultModel) ==
    [model |-> OrElseStr(o.model, Some(GetDefaultModel(adapter, defaultModel))).v]

\* OpenAIProvider.complete: const params
OpenAICompleteParams(messages, o, defaultModel) ==
    ModelKey("openai", o, defaultModel)
    @@ [messages |-> OpenAIFormatMessages(messages)]
    @@ Spread(o.temperature # Undefined, [temperature |-> o.temperature.v])
    @@ Spread(OrElseNum(o.maxTokens, Undefined) # Undefined,
              [max_tokens |-> o.maxTokens.v])
    @@ Spread(o.topP # Undefined, [top_p |-> o.topP.v])
    @@ Spread(o.frequencyPenalty # Undefined,
              [frequency_penalty |-> o.frequencyPenalty.v])
    @@ Spread(o.presencePenalty # Undefined,
              [presence_penalty |-> o.presencePenalty.v])
    @@ Spread(o.stop # Undefined, [stop |-> o.stop.v])
    @@ Spread(o.tools # Undefined, [tools |-> OpenAIFormatTools(o.tools.v)])
    @@ Spread(o.toolChoice # Undefined, [tool_choice |-> o.toolChoice.v])
    @@ Spread(o.responseFormat # Undefined,
              [response_format |-> o.responseFormat.v])

\* OpenAIProvider.stream: const params
OpenAIStreamParams(messages, o, defaultModel) ==
    ModelKey("openai", o, defaultModel)
    @@ [messages |-> OpenAIFormatMessages(messages), stream |-> TRUE]
    @@ Spread(o.temperature # Undefined, [temperature |-> o.temperature.v])
    @@ Spread(OrElseNum(o.maxTokens, Undefined) # Undefined,
              [max_tokens |-> o.maxTokens.v])
    @@ Spread(o.topP # Undefined, [top_p |-> o.topP.v])
    @@ Spread(o.tools # Undefined, [tools |-> OpenAIFormatTools(o.tools.v)])
    @@ Spread(o.toolChoice # Undefined, [tool_choice |-> o.toolChoice.v])

\* AnthropicProvider.complete and stream: the keys they share
AnthropicCommonParams(messages, o, defaultModel) ==
    LET f == AnthropicFormatMessages(messages) IN
    ModelKey("anthropic", o, defaultModel)
    @@ [max_tokens |-> OrElseNum(o.maxTokens, Some(4096)).v,
        messages |-> f.messages]
    @@ Spread(OrElseStr(f.system, Undefined) # Undefined,
              [system |-> f.system.v])
    @@ Spread(o.temperature # Undefined, [temperature |-> o.temperature.v])
    @@ Spread(o.topP # Undefined, [top_p |-> o.topP.v])

\* AnthropicProvider.complete: const params
AnthropicCompleteParams(messages, o, defaultModel) ==
    AnthropicCommonParams(messages, o, defaultModel)
    @@ Spread(o.stop # Undefined, [stop_sequences |-> o.stop.v])
    @@ Spread(o.tools # Undefined, [tools |-> AnthropicFormatTools(o.tools.v)])

\* AnthropicProvider.stream: const params
AnthropicStreamParams(messages, o, defaultModel) ==
    AnthropicCommonParams(messages, o, defaultModel)
    @@ Spread(o.tools # Undefined, [tools |-> AnthropicFormatTools(o.tools.v)])

\* LocalProvider.stream: const body
LocalStreamBody(messages, o, defaultModel) ==
    ModelKey("local", o, defaultModel)
    @@ [messages |-> LocalFormatMessages(messages), stream |-> TRUE]
    @@ Spread(o.temperature # Undefined, [temperature |-> o.temperature.v])
    @@ Spread(OrElseNum(o.maxTokens, Undefined) # Undefined,
              [max_tokens |-> o.maxTokens.v])
    @@ Spread(o.topP # Undefined, [top_p |-> o.topP.v])

\* LocalProvider.complete: const body
LocalCompleteBody(messages, o, defaultModel) ==
    ModelKey("local", o, defaultModel)
    @@ [messages |-> LocalFormatMessages(messages)]
    @@ Spread(o.temperature # Undefined, [temperature |-> o.temperature.v])
    @@ Spread(OrElseNum(o.maxTokens, Undefined) # Undefined,
              [max_tokens |-> o.maxTokens.v])
    @@ Spread(o.topP # Undefined, [top_p |-> o.topP.v])
    @@ Spread(o.stop # Undefined, [stop |-> o.stop.v])

\* the payload adapter builds in op
Payload(adapter, op, messages, o, defaultModel) ==
    CASE adapter = "openai" /\ op = "complete" ->
            OpenAICompleteParams(messages, o, defaultModel)
      [] adapter = "openai" /\ op = "stream" ->
            OpenAIStreamParams(messages, o, defaultModel)
      [] adapter = "anthropic" /\ op = "complete" ->
            AnthropicCompleteParams(messages, o, defaultModel)
      [] adapter = "anthropic" /\ op = "stream" ->
            AnthropicStreamParams(messages, o, defaultModel)
      [] adapter = "local" /\ op = "complete" ->
            LocalCompleteBody(messages, o, defaultModel)
      [] adapter = "local" /\ op = "stream" ->
            LocalStreamBody(messages, o, defaultModel)

\* complete(messages, options) / stream(messages, options) of an adapter, up
\* to the payload
BuildPayload(adapter, op, o, defaultModel) ==
    /\ fCall = Undefined
    /\ fCall' = [fn |-> "payload", adapter |-> adapter, op |-> op, in |-> o,
                 defaultModel |-> defaultModel,
                 out |-> Payload(adapter, op, PayloadMessages, o, defaultModel)]
    /\ UNCHANGED notTranslation

PayloadNext ==
    \E adapter \in {"openai", "anthropic", "local"}, op \in {"complete", "stream"},
       o \in OptionInputs, defaultModel \in {Undefined, Some("cfg")} :
        BuildPayload(adapter, op, o, defaultModel)

(***************************************************************************)
(* validateCredentials of the three adapters                               *)
(***************************************************************************)
\* this.config.maxRetries || 3
\* (the first definition is this.config.maxRetries ?? 3)
ConfigMaxRetries_Nullish(configured) ==
    IF configured = Undefined THEN 3 ELSE configured.v
ConfigMaxRetries(configured) == OrElseNum(configured, Some(3)).v

\* what client.models.list() may resolve to
OpenAIListResponses ==
    { [data |-> Undefined],
      [data |-> Some(<<>>)],
      [data |-> Some(<< [id |-> Id_gpt_4o], [id |-> Id_mixtral] >>)] }

\* what fetch(`${this.baseUrl}/models`) may resolve to: the status and what
\* response.json() gives (Undefined: the body is not JSON)
LocalListResponses ==
    { [ok |-> FALSE, json |-> Undefined],
      [ok |-> TRUE, json |-> Undefined],
      [ok |-> TRUE, json |-> Null],
      [ok |-> TRUE, json |-> Some([data |-> Undefined])],
      [ok |-> TRUE, json |-> Some([data |-> Some(<<>>)])],
      [ok |-> TRUE, json |-> Some([data |-> Some(<< [id |-> Id_mixtral] >>)])] }

\* what client.messages.create(params) may resolve to in the probe
ProbeCreateResponses ==
    { r \in AnthropicResponses :
        /\ r.stop_reason = Some("end_turn")
        /\ r.usage \in {Undefined, [input_tokens |-> Some(3), output_tokens |-> Some(4)]} }

\* OpenAIProvider.listModels after the await of client.models.list()
OpenAIListModels(response) ==
    IF response.data = Undefined THEN [threw |-> TRUE]
    ELSE [threw |-> FALSE,
          models |-> LET kept == SelectSeq(response.data.v,
                                     LAMBDA m : StartsWith(m.id, Prefix_gpt))
                     IN  [i \in 1..Len(kept) |-> kept[i].id]]

\* LocalProvider.listModels after the await of fetch: the try block, whose
\* catch returns []
LocalListModels(response) ==
    IF ~response.ok THEN <<>>
    ELSE IF response.json = Undefined \/ response.json = Null THEN <<>>
    ELSE IF response.json.v.data = Undefined THEN <<>>
    ELSE [i \in 1..Len(response.json.v.data.v) |->
             response.json.v.data.v[i].id]

\* catch { return false } of validateCredentials
ValidateCatch_Rethrow(failure) == [pc |-> "threw", result |-> Undefined]
ValidateCatch(failure) == [pc |-> "returned", result |-> Some(FALSE)]

\* validateCredentials settles
ProbeSettles(pc, result, failure) ==
    /\ vPc' = pc
    /\ vResult' = result
    /\ vFailure' = failure

\* validateCredentials fails inside its try block
ProbeCaught(failure) ==
    ProbeSettles(ValidateCatch(failure).pc, ValidateCatch(failure).result,
                 failure)

\* the transport is invoked: client.models.list(), client.messages.create(params)
\* or fetch(...)
ProbeInvokes(before) ==
    /\ vCalls' = before + 1
    /\ vPc' = "probing"
    /\ vResult' = Undefined
    /\ vFailure' = "none"

\* withRetry's loop at its condition (Anthropic: validateCredentials calls
\* complete, which sends the request through withRetry)
ProbeRetryLoop(a, configured, before) ==
    IF RetryLoopGuard(a, ConfigMaxRetries(configured))
    THEN ProbeInvokes(before)
    ELSE \* throw lastError || new Error('Max retries exceeded')
         /\ ProbeCaught("transport")
         /\ vCalls' = before

\* the client exists: the adapter goes on to its request
ProbeWithClient(adapter, configured) ==
    IF adapter = "anthropic"
    THEN /\ vAttempt' = 0
         /\ vLastError' = Undefined
         /\ ProbeRetryLoop(0, configured, 0)
    ELSE /\ ProbeInvokes(0)
         /\ UNCHANGED <<vAttempt, vLastError>>

\* validateCredentials() is called on the adapter
ValidateCredentials(adapter, configured) ==
    /\ vPc \in {"idle", "returned"}
    /\ vRuns < MaxProbeRuns
    /\ IF vAdapter = "none"
       THEN vAdapter' = adapter /\ vConfigRetries' = configured
       ELSE adapter = vAdapter /\ configured = vConfigRetries
            /\ UNCHANGED <<vAdapter, vConfigRetries>>
    /\ vRuns' = vRuns + 1
    /\ IF adapter = "local" \/ vClient
       THEN \* Local: listModels, await fetch(`${this.baseUrl}/models`);
            \* the others: getClient returns this.client
            ProbeWithClient(adapter, configured)
       ELSE \* getClient: await import(...)
            /\ vCalls' = 0
            /\ vPc' = "importing"
            /\ vResult' = Undefined
            /\ vFailure' = "none"
            /\ UNCHANGED <<vAttempt, vLastError>>
    /\ UNCHANGED vClient
    /\ UNCHANGED notProbe

\* the import resolves: this.client = new ...(...)
ImportResolves ==
    /\ vPc = "importing"
    /\ vClient' = TRUE
    /\ UNCHANGED <<vAdapter, vConfigRetries, vRuns>>
    /\ ProbeWithClient(vAdapter, vConfigRetries)
    /\ UNCHANGED notProbe

\* the import rejects: getClient throws 'SDK not installed'
ImportRejects ==
    /\ vPc = "importing"
    /\ ProbeCaught("client")
    /\ UNCHANGED <<vAdapter, vConfigRetries, vClient, vAttempt, vLastError,
                   vCalls, vRuns>>
    /\ UNCHANGED notProbe

\* the transport resolves with a response
ProbeResolvesOpenAI(response) ==
    /\ vPc = "probing"
    /\ vAdapter = "openai"
    /\ IF OpenAIListModels(response).threw
       THEN ProbeCaught("parse")
       ELSE ProbeSettles("returned", Some(TRUE), "none")
    /\ UNCHANGED <<vAdapter, vConfigRetries, vClient, vAttempt, vLastError,
                   vCalls, vRuns>>
    /\ UNCHANGED notProbe

ProbeResolvesAnthropic(response) ==
    /\ vPc = "probing"
    /\ vAdapter = "anthropic"
    /\ IF AnthropicParseResponse(response, 12).threw
       THEN ProbeCaught("parse")
       ELSE ProbeSettles("returned", Some(TRUE), "none")
    /\ UNCHANGED <<vAdapter, vConfigRetries, vClient, vAttempt, vLastError,
                   vCalls, vRuns>>
    /\ UNCHANGED notProbe

ProbeResolvesLocal(response) ==
    /\ vPc = "probing"
    /\ vAdapter = "local"
    /\ ProbeSettles("returned", Some(Len(LocalListModels(response)) > 0),
                    IF ~response.ok THEN "status"
                    ELSE IF response.json = Undefined \/ response.json = Null
                         THEN "parse" ELSE "none")
    /\ UNCHANGED <<vAdapter, vConfigRetries, vClient, vAttempt, vLastError,
                   vCalls, vRuns>>
    /\ UNCHANGED notProbe

\* the transport rejects with t
ProbeRejects(t) ==
    /\ vPc = "probing"
    /\ IF vAdapter = "anthropic"
       THEN \* withRetry: catch (error)
            /\ vLastError' = AsError(t, vCalls)
            /\ IF isNonRetryableError(vLastError')
               THEN ProbeCaught("transport")
               ELSE /\ vPc' = "sleeping"
                    /\ UNCHANGED <<vResult, vFailure>>
       ELSE IF vAdapter = "local"
            THEN \* listModels: catch { return [] }; [].length > 0
                 /\ ProbeSettles("returned", Some(Len(<<>>) > 0), "transport")
                 /\ UNCHANGED vLastError
            ELSE /\ ProbeCaught("transport")
                 /\ UNCHANGED vLastError
    /\ UNCHANGED <<vAdapter, vConfigRetries, vClient, vAttempt, vCalls, vRuns>>
    /\ UNCHANGED notProbe

\* withRetry: the sleep's timer fires; attempt++
ProbeSleepElapsed ==
    /\ vPc = "sleeping"
    /\ vAttempt' = vAttempt + 1
    /\ ProbeRetryLoop(vAttempt + 1, vConfigRetries, vCalls)
    /\ UNCHANGED <<vAdapter, vConfigRetries, vClient, vLastError, vRuns>>
    /\ UNCHANGED notProbe

ProbeNext ==
    \/ \E adapter \in {"openai", "anthropic", "local"},
          configured \in {Undefined, Some(0), Some(1), Some(2)} :
            ValidateCredentials(adapter, configured)
    \/ ImportResolves
    \/ ImportRejects
    \/ \E response \in OpenAIListResponses : ProbeResolvesOpenAI(response)
    \/ \E response \in ProbeCreateResponses : ProbeResolvesAnthropic(response)
    \/ \E response \in LocalListResponses : ProbeResolvesLocal(response)
    \/ \E t \in Throwables : ProbeRejects(t)
    \/ ProbeSleepElapsed


(***************************************************************************)
(* ModelRegistry: register, estimateCost, fitsInContext                    *)
(***************************************************************************)
\* how many entries callers register
MaxRegisters == 2

\* The entries callers may register here: the ones above, and entries with
\* one cost field only, with both, and with costs of zero. Costs are in
\* 1/100000 USD per 1000 tokens, as in DefaultModels.
CatalogEntries ==
    RegisterInputs \cup
    {[id |-> Id_gpt_4o, provider |-> "openai",
      contextWindow |-> 128000, maxOutputTokens |-> 16384,
      supportsTools |-> TRUE, supportsVision |-> TRUE, defaultTemperature |-> 7,
      costPer1kInput |-> 500],
     [id |-> Id_mixtral, provider |-> "local",
      contextWindow |-> 32768, maxOutputTokens |-> 4096,
      supportsTools |-> FALSE, supportsVision |-> FALSE, defaultTemperature |-> 7,
      costPer1kOutput |-> 60],
     [id |-> Id_gpt_5, provider |-> "openai",
      contextWindow |-> 8192, maxOutputTokens |-> 4096,
      supportsTools |-> TRUE, supportsVision |-> TRUE, defaultTemperature |-> 7,
      costPer1kInput |-> 0, costPer1kOutput |-> 0]}

\* the ids the queries name: in the constructor's table with and without
\* costs, registered by callers only, and never registered
CatalogIds == {Id_gpt_4o, Id_llama3_2, Id_gpt_5, Id_mixtral, Id_gpt4}

\* token counts around the context windows of the entries
TokenCounts == {0, 8191, 8192, 8193, 127999, 128000, 128001}
InputTokens == {0, 1, 1000}
OutputTokens == {0, 500}

\* model.costPer1kInput === undefined, model.costPer1kOutput === undefined
LacksCost(model) ==
    \/ "costPer1kInput" \notin DOMAIN model
    \/ "costPer1kOutput" \notin DOMAIN model

\* estimateCost(modelId, inputTokens, outputTokens). With the cost fields in
\* 1/100000 USD per 1000 tokens the result is in 1/100000000 USD, which keeps
\* (inputTokens / 1000) * cost exact.
estimateCost_ZeroWhenMissing(modelId, inputTokens, outputTokens) ==
    LET model == ModelsGet(modelId) IN
    IF model = Undefined \/ LacksCost(model)
    THEN Some(0)
    ELSE Some(inputTokens * model.costPer1kInput
              + outputTokens * model.costPer1kOutput)
estimateCost(modelId, inputTokens, outputTokens) ==
    LET model == ModelsGet(modelId) IN
    IF model = Undefined \/ LacksCost(model)
    THEN Undefined
    ELSE Some(inputTokens * model.costPer1kInput
              + outputTokens * model.costPer1kOutput)

\* fitsInContext(modelId, tokenCount)
fitsInContext_Inclusive(modelId, tokenCount) ==
    LET model == ModelsGet(modelId) IN
    IF model # Undefined THEN tokenCount <= model.contextWindow ELSE FALSE
fitsInContext(modelId, tokenCount) ==
    LET model == ModelsGet(modelId) IN
    IF model # Undefined THEN tokenCount < model.contextWindow ELSE FALSE

\* a caller registers an entry
CatalogRegister(model) ==
    /\ Len(cLog) < MaxRegisters
    /\ models' = RegisterInto(models, model)
    /\ cLog' = Append(cLog, model)
    /\ cCall' = Undefined
    /\ UNCHANGED <<providers, defaultProvider, dCall, dConfig>>
    /\ UNCHANGED notCatalog

\* a caller asks for the cost of a call
EstimateCost(modelId, inputTokens, outputTokens) ==
    /\ cCall' = [fn |-> "estimateCost", modelId |-> modelId,
                 inputTokens |-> inputTokens, outputTokens |-> outputTokens,
                 out |-> estimateCost(modelId, inputTokens, outputTokens)]
    /\ UNCHANGED <<cLog, dispatcherVars>>
    /\ UNCHANGED notCatalog

\* a caller asks whether a prompt fits
FitsInContext(modelId, tokenCount) ==
    /\ cCall' = [fn |-> "fitsInContext", modelId |-> modelId,
                 tokenCount |-> tokenCount,
                 out |-> fitsInContext(modelId, tokenCount)]
    /\ UNCHANGED <<cLog, dispatcherVars>>
    /\ UNCHANGED notCatalog

CatalogNext ==
    \/ \E model \in CatalogEntries : CatalogRegister(model)
    \/ \E modelId \in CatalogIds, inputTokens \in InputTokens,
          outputTokens \in OutputTokens :
            EstimateCost(modelId, inputTokens, outputTokens)
    \/ \E modelId \in CatalogIds, tokenCount \in TokenCounts :
            FitsInContext(modelId, tokenCount)


(***************************************************************************)
(* getClient of OpenAIProvider and AnthropicProvider under concurrent calls *)
(***************************************************************************)
\* how many calls are in flight on one adapter object
MaxCallers == 2

Callers == 1..MaxCallers

\* the public methods that start with await this.getClient()
\* (AnthropicProvider.listModels returns a fixed list and does not)
ClientMethods(adapter) ==
    IF adapter = "openai"
    THEN {"complete", "stream", "listModels", "validateCredentials"}
    ELSE {"complete", "stream", "validateCredentials"}

AllClientMethods == ClientMethods("openai") \cup ClientMethods("anthropic")

NoCall == [method |-> "none", pc |-> "idle", got |-> 0]

\* new OpenAIProvider(config) / new AnthropicProvider(config): client = null
NewAdapter(adapter, installed) ==
    /\ gAdapter = "none"
    /\ gAdapter' = adapter
    /\ gInstalled' = installed
    /\ UNCHANGED <<gClient, gCallers, gMade>>
    /\ UNCHANGED notClient

\* caller c calls a method: getClient() runs up to its first await.
\* if (this.client) return this.client; else await import(...)
GetClientCall(c, method) ==
    /\ gAdapter # "none"
    /\ method \in ClientMethods(gAdapter)
    /\ gCallers[c].pc = "idle"
    /\ gCallers' = [gCallers EXCEPT ![c] =
            IF gClient # 0
            THEN [method |-> method, pc |-> "returned", got |-> gClient]
            ELSE [method |-> method, pc |-> "importing", got |-> 0]]
    /\ UNCHANGED <<gAdapter, gInstalled, gClient, gMade>>
    /\ UNCHANGED notClient

\* the import of caller c resolves: this.client = new OpenAI({...});
\* return this.client
ImportDone(c) ==
    /\ gCallers[c].pc = "importing"
    /\ gInstalled
    /\ gMade' = gMade + 1
    /\ gClient' = gMade + 1
    /\ gCallers' = [gCallers EXCEPT ![c].pc = "returned", ![c].got = gMade + 1]
    /\ UNCHANGED <<gAdapter, gInstalled>>
    /\ UNCHANGED notClient

\* the import of caller c rejects: catch, throw new Error('... SDK not
\* installed ...')
ImportFails(c) ==
    /\ gCallers[c].pc = "importing"
    /\ ~gInstalled
    /\ gCallers' = [gCallers EXCEPT ![c].pc = "threw"]
    /\ UNCHANGED <<gAdapter, gInstalled, gClient, gMade>>
    /\ UNCHANGED notClient

ClientNext ==
    \/ \E adapter \in {"openai", "anthropic"}, installed \in BOOLEAN :
            NewAdapter(adapter, installed)
    \/ \E c \in Callers, method \in AllClientMethods : GetClientCall(c, method)
    \/ \E c \in Callers : ImportDone(c)
    \/ \E c \in Callers : ImportFails(c)


(***************************************************************************)
(* complete of the three adapters                                          *)
(***************************************************************************)
\* the largest config.maxRetries an adapter is built with
MaxConfigured == 2

CompleteConfigs == {Undefined} \cup {Some(n) : n \in 0..MaxConfigured}

\* "Local server error: 500 boom"
Msg_Local500 ==
    <<"L","o","c","a","l"," ","s","e","r","v","e","r"," ","e","r","r","o",
      "r",":"," ","5","0","0"," ","b","o","o","m">>
\* "Local server error: 401 Unauthorized"
Msg_Local401 ==
    <<"L","o","c","a","l"," ","s","e","r","v","e","r"," ","e","r","r","o",
      "r",":"," ","4","0","1"," ","U","n","a","u","t","h","o","r","i","z",
      "e","d">>
\* "Unexpected token < in JSON at position 0"
Msg_JsonSyntax ==
    <<"U","n","e","x","p","e","c","t","e","d"," ","t","o","k","e","n"," ",
      "<"," ","i","n"," ","J","S","O","N"," ","a","t"," ","p","o","s","i",
      "t","i","o","n"," ","0">>

\* a chat completion as the vendor documents it, and one without choices
WellFormedChat ==
    [id |-> Some("r1"), model |-> Some("m"),
     choices |-> Some(<< [message |-> [content |-> Some("hi")],
                          finish_reason |-> Some("stop")] >>),
     usage |-> [prompt_tokens |-> Some(3), completion_tokens |-> Some(4),
                total_tokens |-> Some(7)]]
MalformedChat == [WellFormedChat EXCEPT !.choices = Undefined]

\* an Anthropic message as the vendor documents it, and one without content
WellFormedMessage ==
    [id |-> Some("r1"), model |-> Some("m"),
     content |-> Some(<< [type |-> "text", text |-> "a"] >>),
     stop_reason |-> Some("end_turn"),
     usage |-> [input_tokens |-> Some(3), output_tokens |-> Some(4)]]
MalformedMessage == [WellFormedMessage EXCEPT !.content = Undefined]

\* What the transport's promise may resolve to. The SDKs resolve to the
\* decoded response; fetch resolves to a response with a status and a body,
\* which is JSON text or not.
Arrivals(adapter) ==
    IF adapter = "openai"
    THEN {[ok |-> TRUE, json |-> TRUE, value |-> r] :
            r \in {WellFormedChat, MalformedChat}}
    ELSE IF adapter = "anthropic"
    THEN {[ok |-> TRUE, json |-> TRUE, value |-> r] :
            r \in {WellFormedMessage, MalformedMessage}}
    ELSE {[ok |-> TRUE, json |-> TRUE, value |-> r] :
            r \in {WellFormedChat, MalformedChat}}
         \cup {[ok |-> TRUE, json |-> FALSE, value |-> Undefined]}
         \cup {[ok |-> FALSE, json |-> FALSE, value |-> Undefined,
                 text |-> m] : m \in {Msg_Local500, Msg_Local401}}

AllArrivals ==
    Arrivals("openai") \cup Arrivals("anthropic") \cup Arrivals("local")

\* this.parseResponse(response, latencyMs) of the adapter
ParseFor(adapter, r) ==
    IF adapter = "openai" THEN OpenAIParseResponse(r, 0)
    ELSE IF adapter = "anthropic" THEN AnthropicParseResponse(r, 0)
    ELSE LocalParseResponse(r, 0, "uuid")

\* withRetry: the operation is invoked
CompleteInvokes(before) ==
    /\ kCalls' = before + 1
    /\ kPc' = "awaiting"
    /\ UNCHANGED <<kResult, kFailure>>

\* withRetry's loop at its condition
CompleteLoop(a, configured, before) ==
    IF RetryLoopGuard(a, ConfigMaxRetries(configured))
    THEN CompleteInvokes(before)
    ELSE \* throw lastError || new Error('Max retries exceeded')
         /\ kPc' = "threw"
         /\ kCalls' = before
         /\ UNCHANGED <<kResult, kFailure>>

\* complete(messages, options) is called. The SDK adapters first await
\* getClient(), which may throw.
CompleteCall(adapter, configured, clientOk) ==
    /\ kPc = "idle"
    /\ kAdapter' = adapter
    /\ kConfigRetries' = configured
    /\ kAttempt' = 0
    /\ kLastError' = Undefined
    /\ IF adapter # "local" /\ ~clientOk
       THEN /\ kPc' = "threw"
            /\ kFailure' = "client"
            /\ UNCHANGED <<kResult, kCalls>>
       ELSE CompleteLoop(0, configured, 0)
    /\ UNCHANGED <<kDelays, kArrived>>
    /\ UNCHANGED notComplete

\* withRetry: catch (error), for a failure of the kind given
CompleteCatch(t, kind) ==
    /\ kLastError' = AsError(t, kCalls)
    /\ kFailure' = kind
    /\ IF isNonRetryableError(kLastError')
       THEN kPc' = "threw" /\ UNCHANGED kDelays
       ELSE \* await this.sleep(Math.pow(2, attempt) * 1000)
            /\ kPc' = "sleeping"
            /\ kDelays' = Append(kDelays, Backoff(kAttempt))
    /\ UNCHANGED kResult

\* the transport's promise resolves
TransportResolves(arrival) ==
    /\ kPc = "awaiting"
    /\ arrival \in Arrivals(kAdapter)
    /\ IF ~arrival.ok
       THEN \* Local, inside the operation: if (!res.ok) throw new Error(...)
            /\ CompleteCatch([isError |-> TRUE, text |-> arrival.text,
                              marked |-> FALSE], "status")
            /\ kArrived' = Append(kArrived, "status")
       ELSE IF ~arrival.json
       THEN \* Local, inside the operation: return res.json() rejects
            /\ CompleteCatch([isError |-> TRUE, text |-> Msg_JsonSyntax,
                              marked |-> FALSE], "json")
            /\ kArrived' = Append(kArrived, "unparsable")
       ELSE \* withRetry returns the response; this.parseResponse(...)
            LET parsed == ParseFor(kAdapter, arrival.value) IN
            /\ IF parsed = ParseThrows
               THEN /\ kPc' = "threw"
                    /\ kFailure' = "parse"
                    /\ kArrived' = Append(kArrived, "unparsable")
                    /\ UNCHANGED kResult
               ELSE /\ kPc' = "returned"
                    /\ kResult' = parsed
                    /\ kArrived' = Append(kArrived, "parsed")
                    /\ UNCHANGED kFailure
            /\ UNCHANGED <<kLastError, kDelays>>
    /\ UNCHANGED <<kAdapter, kConfigRetries, kAttempt, kCalls>>
    /\ UNCHANGED notComplete

\* the transport's promise rejects: create() or fetch() fails
TransportRejects(t) ==
    /\ kPc = "awaiting"
    /\ CompleteCatch(t, "transport")
    /\ kArrived' = Append(kArrived, "rejected")
    /\ UNCHANGED <<kAdapter, kConfigRetries, kAttempt, kCalls>>
    /\ UNCHANGED notComplete

\* withRetry: the sleep's timer fires; attempt++
CompleteSleepElapsed ==
    /\ kPc = "sleeping"
    /\ kAttempt' = kAttempt + 1
    /\ CompleteLoop(kAttempt + 1, kConfigRetries, kCalls)
    /\ UNCHANGED <<kAdapter, kConfigRetries, kLastError, kDelays, kArrived>>
    /\ UNCHANGED notComplete

CompleteNext ==
    \/ \E adapter \in {"openai", "anthropic", "local"},
          configured \in CompleteConfigs, clientOk \in BOOLEAN :
            CompleteCall(adapter, configured, clientOk)
    \/ \E arrival \in AllArrivals : TransportResolves(arrival)
    \/ \E t \in Throwables : TransportRejects(t)
    \/ CompleteSleepElapsed




(***************************************************************************)
(* The dispatcher set up from the environment (initializeFromEnvironment). *)
(* An environment variable or a config field is Undefined (absent) or      *)
(* Some(string); the empty string is present but falsy.                    *)
(***************************************************************************)

EnvValues == {Undefined, Some(""), Some("set")}

Environments ==
    [OPENAI_API_KEY : EnvValues, ANTHROPIC_API_KEY : EnvValues,
     LOCAL_LLM_URL : EnvValues]

\* the configs an adapter is built with: {}, an apiKey, or a baseUrl
ProviderConfigs ==
    { [apiKey |-> a, baseUrl |-> Undefined] : a \in EnvValues }
      \cup { [apiKey |-> Undefined, baseUrl |-> b] : b \in EnvValues }

EmptyConfig == [apiKey |-> Undefined, baseUrl |-> Undefined]

DefaultLocalUrl == "http://localhost:11434/v1"

\* JavaScript truthiness of an optional string
Truthy(x) == x # Undefined /\ x.v # ""

\* a || b on optional strings
OrElse(a, b) == IF Truthy(a) THEN a ELSE b

\* new XProvider(config): the Local adapter fixes its baseUrl at construction,
\* config.baseUrl || 'http://localhost:11434/v1'
ConstructAdapter(kind, cfg) ==
    [config |-> cfg,
     baseUrl |-> IF kind = "local"
                 THEN OrElse(cfg.baseUrl, Some(DefaultLocalUrl))
                 ELSE Undefined]

\* provider.isReady() of each adapter, under environment e
isReady(kind, adapter, e) ==
    CASE kind = "openai" ->
           Truthy(OrElse(adapter.config.apiKey, e.OPENAI_API_KEY))
      [] kind = "anthropic" ->
           Truthy(OrElse(adapter.config.apiKey, e.ANTHROPIC_API_KEY))
      [] OTHER -> Truthy(adapter.baseUrl)

\* getReadyProviders(), as the set of kinds of the list it returns
getReadyProviders(built, e) ==
    { k \in DOMAIN built : isReady(k, built[k], e) }

\* this.providers.set(type, provider)
ProvidersSet(built, kind, adapter) ==
    [k \in DOMAIN built \cup {kind} |-> IF k = kind THEN adapter ELSE built[k]]

\* A variant of the choice below that prefers openai; the code does not.
ChooseDefault_OpenAIFirst(ready) ==
    IF "openai" \in ready THEN Some("openai")
    ELSE IF "anthropic" \in ready THEN Some("anthropic")
    ELSE IF "local" \in ready THEN Some("local")
    ELSE Undefined

\* the if / else-if chain over ready.includes(...): the kind handed to
\* setDefaultProvider, or Undefined when no branch is taken
ChooseDefault(ready) ==
    IF "anthropic" \in ready THEN Some("anthropic")
    ELSE IF "openai" \in ready THEN Some("openai")
    ELSE IF "local" \in ready THEN Some("local")
    ELSE Undefined

\* the Map of the dispatcher model for a Map of built adapters
KindsOf(built) == [k \in DOMAIN built |-> [type |-> k]]

\* process.env changes between calls of the dispatcher
SetEnv(e) ==
    /\ env' = e
    /\ eCall' = Undefined
    /\ UNCHANGED <<adapters, dispatcherVars>>
    /\ UNCHANGED notEnv

\* initializeProvider(type, config) with the config the adapter keeps
InitializeProviderWith(type, cfg) ==
    /\ IF type \in {"openai", "anthropic", "local"}
       THEN /\ adapters' = ProvidersSet(adapters, type, ConstructAdapter(type, cfg))
            /\ providers' = KindsOf(adapters')
       ELSE \* throw new Error(`Unknown provider type: ${type}`)
            UNCHANGED <<adapters, providers>>
    /\ eCall' = Undefined
    /\ UNCHANGED <<env, defaultProvider, models, dCall, dConfig>>
    /\ UNCHANGED notEnv

\* setDefaultProvider(type) on the dispatcher whose adapters are tracked
SetDefaultAmongBuilt(type) ==
    /\ defaultProvider' = IF type \in DOMAIN adapters THEN type
                          ELSE defaultProvider
    /\ eCall' = Undefined
    /\ UNCHANGED <<env, adapters, providers, models, dCall, dConfig>>
    /\ UNCHANGED notEnv

\* initializeFromEnvironment(): the whole call
InitializeFromEnvironment ==
    LET withOpenai ==
            IF Truthy(env.OPENAI_API_KEY)
            THEN ProvidersSet(adapters, "openai", ConstructAdapter("openai", EmptyConfig))
            ELSE adapters
        withAnthropic ==
            IF Truthy(env.ANTHROPIC_API_KEY)
            THEN ProvidersSet(withOpenai, "anthropic",
                              ConstructAdapter("anthropic", EmptyConfig))
            ELSE withOpenai
        localUrl == OrElse(env.LOCAL_LLM_URL, Some(DefaultLocalUrl))
        built == ProvidersSet(withAnthropic, "local",
                     ConstructAdapter("local", [apiKey |-> Undefined,
                                          baseUrl |-> localUrl]))
        ready == getReadyProviders(built, env)
        choice == ChooseDefault(ready)
        \* setDefaultProvider(choice) throws when the kind is not in the Map
        setThrows == choice # Undefined /\ choice.v \notin DOMAIN built
    IN  /\ adapters' = built
        /\ providers' = KindsOf(built)
        /\ defaultProvider' = IF choice # Undefined /\ ~setThrows
                              THEN choice.v ELSE defaultProvider
        /\ eCall' = [threw |-> IF setThrows THEN "Provider not initialized"
                               ELSE "none",
                     ready |-> ready]
        /\ UNCHANGED <<env, models, dCall, dConfig>>
        /\ UNCHANGED notEnv

EnvNext ==
    \/ \E e \in Environments : SetEnv(e)
    \/ \E type \in ProviderTypes, cfg \in ProviderConfigs :
           InitializeProviderWith(type, cfg)
    \/ \E type \in ProviderTypes : SetDefaultAmongBuilt(type)
    \/ InitializeFromEnvironment

(***************************************************************************)
(* The state after construction: no stream and no call in progress         *)
(***************************************************************************)
Init ==
    \* AnthropicProvider.stream
    /\ chunks = <<>>
    /\ resolveNext = FALSE
    /\ done = FALSE
    /\ genPc = "notStarted"
    /\ emitter = "idle"
    /\ pull = "idle"
    /\ exhausted = FALSE
    /\ fired = <<>>
    /\ received = <<>>
    /\ buffered = <<>>
    /\ atMessage = <<>>
    /\ wokeBy = "none"
    \* BaseProvider.withRetry
    /\ rArg = Undefined
    /\ maxRetries = 0
    /\ attempt = 0
    /\ lastError = Undefined
    /\ rPc = "idle"
    /\ rResult = Undefined
    /\ calls = 0
    /\ delays = <<>>
    /\ attempts = <<>>
    \* ModelRegistry and NodeManager
    /\ models = InitialModels
    /\ providers = <<>>
    /\ defaultProvider = "anthropic"
    /\ dCall = Undefined
    /\ dConfig = Undefined
    \* OpenAIProvider.stream / LocalProvider.stream
    /\ sAdapter = "none"
    /\ sPc = "notStarted"
    /\ sPull = "idle"
    /\ sTransport = "closed"
    /\ body = <<>>
    /\ buffer = <<>>
    /\ lines = <<>>
    /\ locked = FALSE
    /\ sOutcome = "none"
    /\ sReceived = <<>>
    /\ sItems = 0
    /\ releases = 0
    /\ sFault = Undefined
    /\ sError = Undefined
    /\ sSent = <<>>
    /\ sSplit = FALSE
    \* NodeManager.listAllModels / validateAllCredentials
    /\ aOp = "none"
    /\ aPc = "idle"
    /\ aCurrent = Undefined
    /\ aVisited = {}
    /\ aResult = <<>>
    /\ aDid = <<>>
    /\ aAtReturn = {}
    \* no translation function called yet
    /\ fCall = Undefined
    \* validateCredentials
    /\ vAdapter = "none"
    /\ vConfigRetries = Undefined
    /\ vClient = FALSE
    /\ vPc = "idle"
    /\ vAttempt = 0
    /\ vLastError = Undefined
    /\ vResult = Undefined
    /\ vCalls = 0
    /\ vFailure = "none"
    /\ vRuns = 0
    \* ModelRegistry: no caller has registered or asked anything
    /\ cLog = <<>>
    /\ cCall = Undefined
    \* getClient: no adapter object yet, nobody has called
    /\ gAdapter = "none"
    /\ gInstalled = FALSE
    /\ gClient = 0
    /\ gCallers = [c \in Callers |-> NoCall]
    /\ gMade = 0
    \* complete: no call yet
    /\ kAdapter = "none"
    /\ kConfigRetries = Undefined
    /\ kPc = "idle"
    /\ kAttempt = 0
    /\ kLastError = Undefined
    /\ kResult = Undefined
    /\ kCalls = 0
    /\ kDelays = <<>>
    /\ kArrived = <<>>
    /\ kFailure = "none"
    \* stream: nothing opened, nothing slept
    /\ tOpens = 0
    /\ tDelays = <<>>
    \* environment: nothing exported, no adapter built, no call made
    /\ env = [OPENAI_API_KEY |-> Undefined, ANTHROPIC_API_KEY |-> Undefined,
              LOCAL_LLM_URL |-> Undefined]
    /\ adapters = <<>>
    /\ eCall = Undefined

(***************************************************************************)
(* Specifications: one per component, the other components at rest          *)
(***************************************************************************)
BridgeSpec == Init /\ [][BridgeNext]_vars

PullSpec == Init /\ [][PullNext]_vars

AggregateSpec == Init /\ [][AggregateNext]_vars

FormatSpec == Init /\ [][FormatNext]_vars

ParseSpec == Init /\ [][ParseNext]_vars

PayloadSpec == Init /\ [][PayloadNext]_vars

ProbeSpec == Init /\ [][ProbeNext]_vars

\* The event loop runs every queued continuation, and the consumer keeps pulling.
FairBridgeSpec == BridgeSpec /\ WF_vars(Resume) /\ WF_vars(Pull)

RetrySpec == Init /\ [][RetryNext]_vars

DispatcherSpec == Init /\ [][DispatcherNext]_vars

CatalogSpec == Init /\ [][CatalogNext]_vars

ClientSpec == Init /\ [][ClientNext]_vars

CompleteSpec == Init /\ [][CompleteNext]_vars

\* one stream call on an adapter of any of the three kinds
StreamNext == BridgeNext \/ PullNext

StreamSpec == Init /\ [][StreamNext]_vars

EnvSpec == Init /\ [][EnvNext]_vars

(***************************************************************************)
(* Claims about AnthropicProvider.stream                                   *)
(***************************************************************************)
\* C1: when the consumer observes the end of the sequence, the contents it
\* received are exactly the 'text' events fired before 'message', each once
\* and in emission order.
C1_ReceivedEqualsFired ==
    exhausted => Contents(received) = fired

\* C2: the consumer observes the sequence as exhausted only after 'message'
\* has fired, and every chunk that was in the queue at that moment (indeed
\* every chunk ever queued) has been yielded to it, in queue order.
C2_BufferedDrainedBeforeExhausted ==
    exhausted =>
        /\ emitter = "ended"
        /\ done
        /\ chunks = <<>>
        /\ received = buffered
        /\ \A i \in 1..Len(atMessage) :
              \E j \in 1..Len(received) : received[j] = atMessage[i]

\* C2 witness: the sequence ended with two chunks still queued when
\* 'message' fired.
C2_Witness ==
    exhausted /\ Len(atMessage) >= 2

\* C3: once 'message' has fired, a consumer that keeps pulling eventually
\* observes the sequence as exhausted.
C3_MessageLeadsToExhausted ==
    (emitter = "ended") ~> exhausted

\* C3 witness: the consumer was suspended on the hand-off promise when
\* 'message' fired, was woken by it and then observed the end, after an
\* earlier 'text' event had woken it too.
C3_Witness ==
    exhausted /\ wokeBy = "message" /\ Len(fired) >= 1 /\ Len(buffered) < Len(fired)

\* C4: a transport failure after the stream has started fails the consumer's
\* pending pull: the consumer is not left suspended on a promise that nothing
\* will settle, and it receives no chunk after the failure.
C4_TransportFailureSurfaces ==
    ~(emitter = "errored" /\ pull = "pending" /\ genPc = "awaiting")

\* The adapters that pull from the transport (OpenAI, Local) do surface a
\* failure: the consumer is never left pending on a failed transport, and a
\* pull made after the failure that needs the transport settles as an error.
PullFailureSurfaces ==
    /\ ~(sTransport = "failed" /\ sPull = "pending")
    /\ (sTransport = "failed" /\ sPc = "threw") => sOutcome = "error"

\* a pull-based stream failed while the consumer was waiting, after a chunk
PullFailureSeen ==
    sTransport = "failed" /\ sPc = "threw" /\ Len(sReceived) >= 1

\* every chunk a pull-based stream delivered with a finishReason has one of
\* the five reasons
ChunkFinishReasonInEnum ==
    \A i \in 1..Len(sReceived) :
        sReceived[i].finishReason # Undefined =>
            sReceived[i].finishReason.v \in FinishReasons

(***************************************************************************)
(* Claims about BaseProvider.withRetry                                     *)
(***************************************************************************)
\* invocation k threw an Error object whose message holds a marker
ThrewMarkedError(k) ==
    /\ attempts[k].threw
    /\ attempts[k].thrown.isError
    /\ attempts[k].thrown.marked

\* invocation k failed with something that holds no marker
ThrewRetryable(k) ==
    attempts[k].threw /\ ~attempts[k].thrown.marked

\* C5: an invocation that throws an Error whose message holds one of the six
\* markers, in any letter case, is the last invocation: withRetry has thrown
\* that very Error object, and the only delays are those of the earlier
\* failed attempts, none after it.
C5_NonRetryableFailsImmediately ==
    \A k \in 1..Len(attempts) :
        ThrewMarkedError(k) =>
            /\ k = calls
            /\ rPc = "threw"
            /\ rResult = [message |-> attempts[k].thrown.text,
                          id |-> k, wrapped |-> FALSE]
            /\ Len(delays) = k - 1

\* C5 witness: the third invocation throws "401 Unauthorized" after two
\* retryable failures.
C5_Witness ==
    /\ calls = 3
    /\ rPc = "threw"
    /\ ThrewRetryable(1) /\ ThrewRetryable(2)
    /\ ThrewMarkedError(3)
    /\ attempts[3].thrown.text = Msg_Unauthorized

\* C6: the operation is invoked at most maxAttempts times, 3 when the
\* argument is left out; when every attempt failed with a retryable error,
\* withRetry throws the error of the last attempt.
C6_AtMostMaxAttemptsLastError ==
    /\ rPc # "idle" => calls <= (IF rArg = Undefined THEN 3 ELSE rArg.n)
    /\ (/\ rPc = "threw"
        /\ calls >= 1
        /\ \A k \in 1..calls : ThrewRetryable(k))
       => /\ rResult.id = calls
          /\ rResult.message = attempts[calls].thrown.text

\* C6 witness: maxAttempts left out, three retryable failures, the last one
\* with another message than the first, and withRetry has thrown.
C6_Witness ==
    /\ rArg = Undefined
    /\ rPc = "threw"
    /\ calls = 3
    /\ \A k \in 1..3 : ThrewRetryable(k)
    /\ attempts[1].thrown.text # attempts[3].thrown.text

\* 2^k * 1000 for k = 0, 1, 2, ...
ExpectedDelays == <<1000, 2000, 4000, 8000, 16000, 32000, 64000>>

\* C7: the i-th delay, which follows the failed attempt number i-1, is
\* 2^(i-1) * 1000 ms; an operation that failed twice and succeeded on its
\* third invocation makes withRetry return that invocation's value after
\* the delays 1000 and 2000 and no other.
C7_ExponentialBackoff ==
    /\ \A i \in 1..Len(delays) : delays[i] = ExpectedDelays[i]
    /\ (rPc = "returned" /\ calls = 3)
       => /\ delays = <<1000, 2000>>
          /\ rResult.value = attempts[3].value

\* C7 witness: two retryable failures, then success on the third invocation.
C7_Witness ==
    /\ rPc = "returned"
    /\ calls = 3
    /\ ThrewRetryable(1) /\ ThrewRetryable(2)
    /\ ~attempts[3].threw

\* C8: every delay is followed by another invocation: when withRetry has
\* thrown or returned, it has slept one time less than it has invoked the
\* operation.
C8_DelayOnlyBeforeNextTry ==
    (rPc \in {"threw", "returned"} /\ calls >= 1) => Len(delays) = calls - 1

(***************************************************************************)
(* Claims about NodeManager's resolution                                   *)
(***************************************************************************)
\* the label of a model id of ModelIdInputs
PrefixLabel(text) == (CHOOSE i \in ModelIdInputs : i.text = text).prefix

\* the adapter of kind k as the dispatcher holds it now, if any
AdapterOfKind(k) ==
    IF k \in DOMAIN providers THEN [type |-> k] ELSE Undefined

\* C9: a complete or stream call that names a provider forwards to the
\* adapter of that kind when it is initialized and to no adapter otherwise,
\* whatever model id the call names.
C9_ExplicitProviderWins ==
    (dCall # Undefined /\ dCall.provider # Undefined) =>
        /\ dCall.adapter = AdapterOfKind(dCall.provider.v)
        /\ dCall.adapter # Undefined => dCall.adapter.type = dCall.provider.v
        /\ dCall.threw = "none" <=> dCall.provider.v \in DOMAIN providers

\* C9 witness: provider 'local' is named together with gpt-4o, which the
\* catalog maps to openai, both adapters are initialized, and the call went
\* to the local adapter.
C9_Witness ==
    /\ dCall # Undefined
    /\ dCall.provider = Some("local")
    /\ dCall.model = Some(Id_gpt_4o)
    /\ models[Id_gpt_4o].provider = "openai"
    /\ {"openai", "local"} \subseteq DOMAIN providers
    /\ dCall.adapter = [type |-> "local"]

\* the provider kind the spec's resolution order names for a call that gives
\* no provider
InferredKind(model) ==
    IF model # Undefined /\ model.v # <<>>
    THEN IF model.v \in DOMAIN models
         THEN models[model.v].provider
         ELSE CASE PrefixLabel(model.v) = "gpt-" -> "openai"
                [] PrefixLabel(model.v) = "claude-" -> "anthropic"
                [] OTHER -> "local"
    ELSE defaultProvider

\* C10: a call that names no provider forwards to the adapter of the catalog
\* entry's provider when the catalog has the model id, else to openai for a
\* 'gpt-' id, anthropic for a 'claude-' id and local for any other id, and to
\* the default adapter when no model id is given (an empty id counts as not
\* given).
C10_ModelInference ==
    (dCall # Undefined /\ dCall.provider = Undefined) =>
        dCall.adapter = AdapterOfKind(InferredKind(dCall.model))

\* C10 witness: gpt-4o has been re-registered under provider 'local', openai
\* and local are both initialized, and a call naming only gpt-4o went to the
\* local adapter.
C10_Witness ==
    /\ dCall # Undefined
    /\ dCall.provider = Undefined
    /\ dCall.model = Some(Id_gpt_4o)
    /\ models[Id_gpt_4o].provider = "local"
    /\ {"openai", "local"} \subseteq DOMAIN providers
    /\ dCall.adapter = [type |-> "local"]

\* the provider kind a call resolves to: the kind it names, else the kind
\* inferred from its model id, else the default kind
ResolvedKind(call) ==
    IF call.provider # Undefined THEN call.provider.v
    ELSE InferredKind(call.model)

\* C11: when the kind a complete/stream call resolves to has no initialized
\* adapter the call fails with the 'No provider available' error and no
\* adapter is invoked; otherwise the adapter of that kind is invoked exactly
\* once, no other adapter is, and what it returned or threw is what the
\* caller gets.
C11_ForwardOrFail ==
    dCall # Undefined =>
        IF ResolvedKind(dCall) \in DOMAIN providers
        THEN /\ dCall.invoked = <<ResolvedKind(dCall)>>
             /\ dCall.surfaced = dCall.adapterDid
        ELSE /\ dCall.invoked = <<>>
             /\ dCall.surfaced.kind = "threw"
             /\ dCall.surfaced.error.isError
             /\ dCall.surfaced.error.message =
                    (IF dCall.op = "complete"
                     THEN "No provider available for completion"
                     ELSE "No provider available for streaming")

\* C11 witness: the call names openai, which is not initialized, while the
\* default adapter is; the call failed without invoking it.
C11_Witness ==
    /\ dCall # Undefined
    /\ dCall.provider = Some("openai")
    /\ "openai" \notin DOMAIN providers
    /\ defaultProvider \in DOMAIN providers
    /\ dCall.invoked = <<>>
    /\ dCall.surfaced.kind = "threw"

\* an adapter's own failure, not an Error object, reached the caller as thrown
C11_FailureSurfaced ==
    /\ dCall # Undefined
    /\ dCall.invoked # <<>>
    /\ dCall.surfaced.kind = "threw"
    /\ ~dCall.surfaced.error.isError

\* C20: setDefaultProvider for a kind with no initialized adapter throws
\* and leaves the default kind (and the adapters) as they were;
\* initializeProvider with a kind other than openai, anthropic and local
\* throws and leaves the set of initialized adapters (and the default kind)
\* as it was.
C20_ConfigErrorsChangeNothing ==
    dConfig # Undefined =>
        /\ (/\ dConfig.op = "setDefaultProvider"
            /\ dConfig.type \notin dConfig.providersBefore) =>
              /\ dConfig.threw = Some(<<"Provider ", dConfig.type, " not initialized">>)
              /\ defaultProvider = dConfig.defaultBefore
              /\ DOMAIN providers = dConfig.providersBefore
        /\ (/\ dConfig.op = "initializeProvider"
            /\ dConfig.type \notin {"openai", "anthropic", "local"}) =>
              /\ dConfig.threw = Some(<<"Unknown provider type: ", dConfig.type>>)
              /\ DOMAIN providers = dConfig.providersBefore
              /\ defaultProvider = dConfig.defaultBefore

\* C20 witness: with openai as the only adapter and as the default,
\* setDefaultProvider('local') threw and the default is still openai.
C20_Witness ==
    /\ dConfig # Undefined
    /\ dConfig.op = "setDefaultProvider"
    /\ dConfig.type = "local"
    /\ dConfig.providersBefore = {"openai"}
    /\ dConfig.threw # Undefined
    /\ defaultProvider = "openai"

\* initializeProvider('custom') threw with two adapters initialized
C20_UnknownKindSeen ==
    /\ dConfig # Undefined
    /\ dConfig.op = "initializeProvider"
    /\ dConfig.type = "custom"
    /\ dConfig.threw # Undefined
    /\ Cardinality(DOMAIN providers) = 2

(***************************************************************************)
(* Claims about the aggregate calls                                        *)
(***************************************************************************)
\* C12: listAllModels and validateAllCredentials never fail, and what they
\* return has one entry for every adapter initialized at that moment: the
\* adapter's own list or boolean when its call returned, the empty list or
\* false when its call failed.
C12_AggregateIsolatesFailures ==
    /\ aPc # "threw"
    /\ aPc = "returned" =>
          /\ DOMAIN aResult = aAtReturn
          /\ DOMAIN aDid = aAtReturn
          /\ \A type \in aAtReturn :
                aResult[type] =
                    (IF aDid[type].kind = "returned" THEN aDid[type].value
                     ELSE IF aOp = "listAllModels" THEN <<>> ELSE FALSE)

\* C12 witness: three adapters, one initialized while the call was suspended;
\* one adapter's call failed and a later one's returned a non-empty list.
C12_Witness ==
    /\ aPc = "returned"
    /\ aOp = "listAllModels"
    /\ aAtReturn = {"openai", "anthropic", "local"}
    /\ \E type \in aAtReturn : aDid[type].kind = "threw"
    /\ \E type \in aAtReturn : aResult[type] = <<"m1">>

\* validateAllCredentials returned false for an adapter whose probe raised
\* and true for another
C12_ValidateSeen ==
    /\ aPc = "returned"
    /\ aOp = "validateAllCredentials"
    /\ \E type \in aAtReturn : aDid[type].kind = "threw" /\ aResult[type] = FALSE
    /\ \E type \in aAtReturn : aResult[type] = TRUE

(***************************************************************************)
(* Claims about AnthropicProvider.formatMessages                           *)
(***************************************************************************)
\* the positions of the system-role messages of a list
SystemPositions(messages) ==
    {i \in 1..Len(messages) : messages[i].role = "system"}

FormatCalled ==
    fCall # Undefined /\ fCall.fn = "anthropic.formatMessages"

C16_RoleFolding ==
    FormatCalled =>
        LET kept == SelectSeq(fCall.in, LAMBDA m : m.role # "system")
            out == fCall.out.messages
        IN  /\ Len(out) = Len(kept)
            /\ \A i \in 1..Len(out) :
                  /\ out[i].role # "system"
                  /\ kept[i].role = "tool" =>
                        /\ out[i].role = "user"
                        /\ out[i].content =
                              << [type |-> "tool_result",
                                  tool_use_id |-> kept[i].toolCallId,
                                  content |-> kept[i].content] >>
                  /\ kept[i].role \in {"user", "assistant"} =>
                        /\ out[i].role = kept[i].role
                        /\ out[i].content = kept[i].content

\* C16 witness: a system message between a tool message carrying toolCallId
\* x and an assistant message.
C16_Witness ==
    /\ FormatCalled
    /\ Len(fCall.in) = 3
    /\ fCall.in[1] = [role |-> "tool", content |-> "A", toolCallId |-> Some("x")]
    /\ fCall.in[2].role = "system"
    /\ fCall.in[3].role = "assistant"
    /\ Len(fCall.out.messages) = 2
    /\ fCall.out.messages[1].role = "user"
    /\ fCall.out.messages[2].role = "assistant"

(***************************************************************************)
(* Claims about the parsed responses                                       *)
(***************************************************************************)
Parsed ==
    fCall # Undefined /\ fCall.fn = "parseResponse" /\ ~fCall.out.threw

\* the prompt and completion counts of the vendor response of the call
VendorPrompt ==
    IF fCall.adapter = "anthropic" THEN fCall.in.usage.input_tokens
    ELSE fCall.in.usage.prompt_tokens

VendorCompletion ==
    IF fCall.adapter = "anthropic" THEN fCall.in.usage.output_tokens
    ELSE fCall.in.usage.completion_tokens

\* C18: a response parsed from a vendor response that supplies the prompt
\* and the completion count has totalTokens = promptTokens +
\* completionTokens, whatever total the vendor sent or left out.
C18_TotalIsSum ==
    (/\ Parsed
     /\ fCall.in.usage # Undefined
     /\ VendorPrompt # Undefined
     /\ VendorCompletion # Undefined) =>
        /\ fCall.out.usage.promptTokens = VendorPrompt
        /\ fCall.out.usage.completionTokens = VendorCompletion
        /\ fCall.out.usage.totalTokens =
                Some(VendorPrompt.v + VendorCompletion.v)

\* C19: the finishReason of a parsed response is one of stop, length,
\* tool_calls, content_filter, error.
C19_FinishReasonInEnum ==
    Parsed => fCall.out.finishReason \in FinishReasons

(***************************************************************************)
(* Claims about the vendor payloads                                        *)
(***************************************************************************)
\* the payload keys that carry each CompletionOptions field
KeysOfField ==
    [ model |-> {"model"},
      temperature |-> {"temperature"},
      maxTokens |-> {"max_tokens", "maxTokens"},
      topP |-> {"top_p", "topP"},
      frequencyPenalty |-> {"frequency_penalty", "frequencyPenalty"},
      presencePenalty |-> {"presence_penalty", "presencePenalty"},
      stop |-> {"stop", "stop_sequences"},
      tools |-> {"tools"},
      toolChoice |-> {"tool_choice", "toolChoice"},
      responseFormat |-> {"response_format", "responseFormat"},
      stream |-> {"stream"},
      timeout |-> {"timeout"} ]

PayloadBuilt == fCall # Undefined /\ fCall.fn = "payload"

\* C17 as stated: no field of the options that was left unset has a key in
\* the payload.
C17_UnsetFieldsOmitted ==
    PayloadBuilt =>
        \A field \in DOMAIN KeysOfField :
            fCall.in[field] = Undefined =>
                KeysOfField[field] \cap DOMAIN fCall.out = {}

\* the fields for which the adapter supplies a value when the caller leaves
\* them unset: model (the default model) in every adapter, maxTokens (4096)
\* in the Anthropic adapter, stream (true) in the stream payload of the
\* OpenAI and Local adapters
DefaultedFields(adapter, op) ==
    {"model"}
    \cup (IF adapter = "anthropic" THEN {"maxTokens"} ELSE {})
    \cup (IF adapter # "anthropic" /\ op = "stream" THEN {"stream"} ELSE {})

\* C17 amended: apart from model, from maxTokens in the Anthropic adapter and
\* from stream in the OpenAI and Local stream payloads, no field of the
\* options that was left unset has a key in the payload; those three carry
\* the adapter's value: the default model, 4096, true.
C17_UnsetFieldsOmittedButDefaults ==
    PayloadBuilt =>
        /\ \A field \in DOMAIN KeysOfField \ DefaultedFields(fCall.adapter, fCall.op) :
              fCall.in[field] = Undefined =>
                  KeysOfField[field] \cap DOMAIN fCall.out = {}
        /\ fCall.in.model = Undefined =>
              fCall.out.model =
                  (IF fCall.defaultModel # Undefined THEN fCall.defaultModel.v
                   ELSE CASE fCall.adapter = "openai" -> "gpt-4-turbo-preview"
                          [] fCall.adapter = "anthropic" ->
                                "claude-3-5-sonnet-20241022"
                          [] fCall.adapter = "local" -> "llama3.2")
        /\ (fCall.adapter = "anthropic" /\ fCall.in.maxTokens = Undefined) =>
              fCall.out.max_tokens = 4096
        /\ (fCall.adapter # "anthropic" /\ fCall.op = "stream") =>
              fCall.out.stream = TRUE

\* C17 witness: an OpenAI complete call with every option left unset built
\* a payload of model and messages only.
C17_Witness ==
    /\ PayloadBuilt
    /\ fCall.adapter = "openai"
    /\ fCall.op = "complete"
    /\ \A field \in DOMAIN KeysOfField : fCall.in[field] = Undefined
    /\ DOMAIN fCall.out = {"model", "messages"}

(***************************************************************************)
(* Claims about validateCredentials                                        *)
(***************************************************************************)
\* C13: validateCredentials of each adapter never raises and resolves to
\* true or false; when the client could not be initialized, the transport
\* failed or the response could not be parsed, it resolves to false.
C13_ValidateNeverRaises ==
    /\ vPc # "threw"
    /\ vPc = "returned" =>
          /\ vResult \in {Some(TRUE), Some(FALSE)}
          /\ vFailure # "none" => vResult = Some(FALSE)

\* C13 witness: the Anthropic probe ran out of retries on a retryable
\* transport failure and validateCredentials resolved to false.
C13_Witness ==
    /\ vPc = "returned"
    /\ vAdapter = "anthropic"
    /\ vFailure = "transport"
    /\ vLastError # Undefined
    /\ ~isNonRetryableError(vLastError)
    /\ vResult = Some(FALSE)

\* validateCredentials resolved to false after a failed import, and after a
\* response that could not be parsed
C13_ClientFailureSeen ==
    vPc = "returned" /\ vFailure = "client" /\ vResult = Some(FALSE)

C13_ParseFailureSeen ==
    vPc = "returned" /\ vFailure = "parse" /\ vResult = Some(FALSE)

\* C14: one validateCredentials call invokes the transport at most once,
\* and exactly once when it has settled with a client.
C14_OneProbePerCall ==
    /\ vCalls <= 1
    /\ (vPc = "returned" /\ vFailure # "client") => vCalls = 1

\* ---------------------------------------------------------------------
\* C21: whatever a stream call makes the consumer's next() reject with is
\* an Error object: a value the transport threw that is not an Error has
\* been wrapped into one before it reaches the caller.
C21_SurfacedFailuresAreErrors ==
    sError # Undefined => sError.isError

\* a stream call has rejected with the very value the transport threw
C21_RawThrowableSurfaced ==
    /\ sOutcome = "error"
    /\ sError = sFault
    /\ ~sError.isError

\* ---------------------------------------------------------------------
\* What a local stream is expected to deliver, stated apart from the
\* adapter's code: the lines of a body, their payloads, and the chunk of
\* each well-formed payload.
IsPrefix(a, b) ==
    Len(a) <= Len(b) /\ a = SubSeq(b, 1, Len(a))

\* the bytes of the body read so far
BytesRead == SubSeq(sSent, 1, Len(sSent) - Len(body))

\* the terminated lines of a text, in order
TerminatedLines(text) ==
    LET all == Split(text) IN SubSeq(all, 1, Len(all) - 1)

\* the payloads of the data lines among ls, in order
RECURSIVE DataPayloads(_)
DataPayloads(ls) ==
    IF ls = <<>> THEN <<>>
    ELSE IF StartsWith(Head(ls), DataPrefix)
         THEN <<SubSeq(Head(ls), 7, Len(Head(ls)))>> \o DataPayloads(Tail(ls))
         ELSE DataPayloads(Tail(ls))

\* the payloads in front of the first [DONE]
RECURSIVE BeforeDone(_)
BeforeDone(ps) ==
    IF ps = <<>> \/ Head(ps) = <<"[","D","O","N","E","]">> THEN <<>>
    ELSE <<Head(ps)>> \o BeforeDone(Tail(ps))

HasDone(ps) == \E i \in 1..Len(ps) : ps[i] = <<"[","D","O","N","E","]">>

\* the well-formed payloads and the chunk each one stands for
WellFormed == {Json_1, Json_2, Json_3}
ChunkFor(p) ==
    IF p = Json_1 THEN [id |-> "1", content |-> "", finishReason |-> Undefined]
    ELSE IF p = Json_2
         THEN [id |-> "2", content |-> "", finishReason |-> Undefined]
         ELSE [id |-> "3", content |-> "", finishReason |-> Some("eos")]

\* the chunks of the well-formed payloads among ps, in order
RECURSIVE ChunksFor(_)
ChunksFor(ps) ==
    IF ps = <<>> THEN <<>>
    ELSE IF Head(ps) \in WellFormed
         THEN <<ChunkFor(Head(ps))>> \o ChunksFor(Tail(ps))
         ELSE ChunksFor(Tail(ps))

\* ---------------------------------------------------------------------
\* C22: in a local stream a data line whose payload is [DONE] ends the
\* sequence at once: every chunk delivered stands for a data line in
\* front of the marker, wherever the lines behind it are (same read,
\* buffer, later read), and once the marker's line has been read the
\* generator never waits for another read.
C22_DoneEndsAtOnce ==
    sAdapter = "local" =>
      /\ IsPrefix(sReceived,
                  ChunksFor(BeforeDone(DataPayloads(TerminatedLines(sSent)))))
      /\ (sPc = "reading" /\ sTransport = "open") =>
            ~HasDone(DataPayloads(TerminatedLines(BytesRead)))

\* the generator has returned at the marker with a data line behind it
\* still unread, and with one in the same read
C22_Witness ==
    /\ sAdapter = "local"
    /\ sSent = Body_AfterDone
    /\ sPc = "finished"
    /\ lines = <<>>
    /\ HasDone(DataPayloads(TerminatedLines(BytesRead)))
    /\ sReceived = <<ChunkFor(Json_1)>>

\* ---------------------------------------------------------------------
\* What the catalog holds, stated from the history of register calls: the
\* constructor's entries followed by the callers', and for an id the last
\* entry registered under it.
FullLog == DefaultModels \o cLog

LastRegistered(id) ==
    LET at == {i \in 1..Len(FullLog) : FullLog[i].id = id} IN
    IF at = {} THEN Undefined
    ELSE FullLog[CHOOSE i \in at : \A j \in at : j <= i]

\* ---------------------------------------------------------------------
\* C23: fitsInContext(modelId, tokenCount) is true exactly when the model
\* is registered and tokenCount is strictly below its contextWindow: a
\* tokenCount equal to the window does not fit, the window minus one does,
\* and an id that is not registered never fits.
C23_FitsStrictlyBelowWindow ==
    (cCall # Undefined /\ cCall.fn = "fitsInContext") =>
        LET entry == LastRegistered(cCall.modelId) IN
        /\ cCall.out = (/\ entry # Undefined
                        /\ cCall.tokenCount < entry.contextWindow)
        /\ entry = Undefined => cCall.out = FALSE
        /\ entry # Undefined =>
              /\ cCall.tokenCount = entry.contextWindow => cCall.out = FALSE
              /\ cCall.tokenCount = entry.contextWindow - 1 => cCall.out = TRUE

\* a registered model was asked about a tokenCount equal to its window
C23_Witness ==
    /\ cCall # Undefined
    /\ cCall.fn = "fitsInContext"
    /\ LastRegistered(cCall.modelId) # Undefined
    /\ cCall.tokenCount = LastRegistered(cCall.modelId).contextWindow
    /\ cCall.out = FALSE

\* ---------------------------------------------------------------------
\* C24: estimateCost(modelId, in, out) is undefined (and never zero) when
\* the id is not registered or its entry lacks one of the two cost fields;
\* otherwise it is in/1000 * costPer1kInput + out/1000 * costPer1kOutput
\* (in 1/100000000 USD: in * cost + out * cost with the costs in
\* 1/100000 USD). gpt-4o as the constructor registers it, with 1000 input
\* and 500 output tokens, gives 0.0125 USD, 1250000 in this unit.
C24_EstimateCost ==
    (cCall # Undefined /\ cCall.fn = "estimateCost") =>
        LET entry == LastRegistered(cCall.modelId)
            priced == /\ entry # Undefined
                      /\ {"costPer1kInput", "costPer1kOutput"} \subseteq DOMAIN entry
        IN
        /\ ~priced => cCall.out = Undefined
        /\ priced =>
              cCall.out = Some(cCall.inputTokens * entry.costPer1kInput
                               + cCall.outputTokens * entry.costPer1kOutput)
        /\ ( /\ cCall.modelId = Id_gpt_4o
             /\ \A i \in 1..Len(cLog) : cLog[i].id # Id_gpt_4o
             /\ cCall.inputTokens = 1000
             /\ cCall.outputTokens = 500 ) => cCall.out = Some(1250000)

\* the cost of gpt-4o as the constructor registers it was asked for
C24_Witness ==
    /\ cCall # Undefined
    /\ cCall.fn = "estimateCost"
    /\ cCall.modelId = Id_gpt_4o
    /\ cLog = <<>>
    /\ cCall.inputTokens = 1000
    /\ cCall.outputTokens = 500
    /\ cCall.out = Some(1250000)

\* the cost of an entry with one cost field only was asked for
C24_OneFieldSeen ==
    /\ cCall # Undefined
    /\ cCall.fn = "estimateCost"
    /\ LastRegistered(cCall.modelId) # Undefined
    /\ "costPer1kInput" \in DOMAIN LastRegistered(cCall.modelId)
    /\ "costPer1kOutput" \notin DOMAIN LastRegistered(cCall.modelId)
    /\ cCall.out = Undefined

\* ---------------------------------------------------------------------
\* C25: register is last-write-wins: after any sequence of register calls
\* get(id) is exactly the entry registered last under id, with no field
\* of an earlier entry in it, and a call leaves the entries under every
\* other id as they were.
C25_LastWriteWins ==
    \A id \in CatalogIds \cup {DefaultModels[i].id : i \in 1..Len(DefaultModels)} :
        ModelsGet(id) = LastRegistered(id)

\* an id was registered twice, the second entry without a field of the first
C25_Witness ==
    /\ Len(cLog) = 2
    /\ cLog[1].id = cLog[2].id
    /\ ~(DOMAIN cLog[1] \subseteq DOMAIN cLog[2])
    /\ ModelsGet(cLog[2].id) = cLog[2]

\* ---------------------------------------------------------------------
\* C26: on one SDK adapter object the transport client is constructed at
\* most once, whatever the interleaving of concurrent complete, stream,
\* listModels and validateCredentials calls, and all callers are given the
\* same client object, also the ones that called before the first
\* initialization had finished.
C26_ClientConstructedOnce ==
    /\ gMade <= 1
    /\ \A c1, c2 \in Callers :
          (gCallers[c1].pc = "returned" /\ gCallers[c2].pc = "returned")
              => gCallers[c1].got = gCallers[c2].got

\* two callers that both started before any client existed hold
\* different client objects
C26_TwoClients ==
    /\ gMade = 2
    /\ \E c1, c2 \in Callers :
          /\ gCallers[c1].pc = "returned"
          /\ gCallers[c2].pc = "returned"
          /\ gCallers[c1].got # gCallers[c2].got

\* ---------------------------------------------------------------------
\* The chunks LocalProvider.stream yields when the whole body arrives in
\* one read: the loop over the lines of that read, run to its end.
RECURSIVE RunAll(_)
RunAll(ls) ==
    LET r == LocalRun(ls) IN
    IF r.kind = "yield" THEN <<r.chunk>> \o RunAll(r.rest) ELSE <<>>

OneRead(sent) ==
    LET all == Split(sent) IN RunAll(SubSeq(all, 1, Len(all) - 1))

IsSuffix(a, b) ==
    Len(a) <= Len(b) /\ a = SubSeq(b, Len(b) - Len(a) + 1, Len(b))

\* ---------------------------------------------------------------------
\* C27: the chunks a local stream yields depend on the bytes of the body
\* only, not on how the reads cut them: at every moment the chunks
\* delivered are a front part of what one read of the whole body yields,
\* and all of it once the body has been read to its end; the text of a
\* line whose end has not arrived is held in the buffer whole, and only
\* terminated lines reach the parser.
C27_SplitIndependent ==
    sAdapter = "local" =>
      /\ IsPrefix(sReceived, OneRead(sSent))
      /\ sTransport = "ended" => sReceived = OneRead(sSent)
      /\ LET all == Split(BytesRead) IN
            /\ buffer = all[Len(all)]
            /\ IsSuffix(lines, SubSeq(all, 1, Len(all) - 1))

\* a read ended inside a well-formed data line, and the body was read to
\* its end with one chunk for each of its two well-formed lines
C27_Witness ==
    /\ sAdapter = "local"
    /\ sSplit
    /\ sSent = Body_BadBetween
    /\ sTransport = "ended"
    /\ sReceived = <<ChunkFor(Json_1), ChunkFor(Json_2)>>

\* the body ended in a data line without a line terminator: its text is
\* in the buffer when the stream ends
C27_UnterminatedHeld ==
    /\ sAdapter = "local"
    /\ sSent = Body_Unterminated
    /\ sTransport = "ended"
    /\ buffer = DataPrefix \o Json_2
    /\ sReceived = <<ChunkFor(Json_1)>>

\* ---------------------------------------------------------------------
\* C28: in a local stream a data line whose payload does not parse as
\* JSON yields no chunk, raises nothing and does not end the sequence:
\* when the stream has run to the [DONE] marker or to the end of the body
\* the consumer has received the chunks of exactly the well-formed data
\* lines in front of the marker, in order, and the only failures a
\* consumer ever sees are the transport's.
C28_MalformedLinesSkipped ==
    sAdapter = "local" =>
      LET expected ==
            ChunksFor(BeforeDone(DataPayloads(TerminatedLines(sSent))))
          atMarker ==
            /\ sPc = "finished"
            /\ lines = <<>>
            /\ HasDone(DataPayloads(TerminatedLines(BytesRead)))
      IN
      /\ (sTransport = "ended" \/ atMarker) => sReceived = expected
      /\ sOutcome = "error" => (sFault # Undefined /\ sError = sFault)

\* the body with a malformed data line between two well-formed ones was
\* read to its end: two chunks, no failure
C28_Witness ==
    /\ sAdapter = "local"
    /\ sSent = Body_BadBetween
    /\ sTransport = "ended"
    /\ sOutcome = "done"
    /\ sError = Undefined
    /\ Len(sReceived) = 2
    /\ sReceived[1].id = "1"
    /\ sReceived[2].id = "2"

\* ---------------------------------------------------------------------
\* C29: in complete of every adapter a vendor response that arrives but
\* cannot be parsed into a CompletionResponse makes the call fail with no
\* further transport attempt and no backoff delay: the unparsable
\* response is the last thing the transport is asked for, the call has
\* thrown, and no delay was slept after it.
C29_MalformedResponseNotRetried ==
    \A i \in 1..Len(kArrived) :
        kArrived[i] = "unparsable" =>
            /\ i = Len(kArrived)
            /\ kCalls = i
            /\ kPc = "threw"
            /\ Len(kDelays) = i - 1

\* an SDK adapter's response without choices arrived, and the call threw
\* after that one attempt
C29_SdkParseFailureSeen ==
    /\ kAdapter \in {"openai", "anthropic"}
    /\ kArrived = <<"unparsable">>
    /\ kPc = "threw"
    /\ kFailure = "parse"
    /\ kCalls = 1
    /\ kDelays = <<>>

\* the local server answered with a body that is not JSON, and the
\* adapter asked it again after a delay
C29_LocalBodyRetried ==
    /\ kAdapter = "local"
    /\ Len(kArrived) >= 2
    /\ kArrived[1] = "unparsable"
    /\ kCalls >= 2
    /\ Len(kDelays) >= 1

\* ---------------------------------------------------------------------
\* C30: for every value of the options the payload OpenAIProvider.stream
\* builds has the keys and values of the payload complete builds from the
\* same options, and stream = true besides: what complete forwards,
\* stream forwards.
C30_StreamPayloadIsCompletePlusFlag ==
    (PayloadBuilt /\ fCall.adapter = "openai" /\ fCall.op = "stream") =>
        fCall.out = [stream |-> TRUE]
                    @@ OpenAICompleteParams(PayloadMessages, fCall.in,
                                            fCall.defaultModel)

\* stream was called with a stop list, and its payload has no stop key
C30_StopDropped ==
    /\ PayloadBuilt
    /\ fCall.adapter = "openai"
    /\ fCall.op = "stream"
    /\ fCall.in.stop # Undefined
    /\ "stop" \notin DOMAIN fCall.out
    /\ "stop" \in DOMAIN OpenAICompleteParams(PayloadMessages, fCall.in,
                                              fCall.defaultModel)

\* ---------------------------------------------------------------------
\* C31: streaming does not go through the retry engine in any adapter: a
\* stream call asks the transport for a stream at most once, also when
\* opening it or reading from it has failed with an error that withRetry
\* would retry, and no backoff delay is slept inside a stream call.
C31_StreamNeverRetries ==
    /\ tOpens <= 1
    /\ tDelays = <<>>
    /\ (sPc = "threw" \/ emitter = "errored") => tOpens = 1

\* opening the stream failed with a retryable error: the consumer saw the
\* failure after that one attempt
C31_Witness ==
    /\ sAdapter \in {"openai", "local"}
    /\ sTransport = "refused"
    /\ sOutcome = "error"
    /\ sError.isError
    /\ ~isNonRetryableError(AsError(sError, 1))
    /\ tOpens = 1
    /\ tDelays = <<>>

\* reading from an open stream failed, and the transport was not asked again
C31_ReadFailureSeen ==
    /\ sTransport = "failed"
    /\ sPc = "threw"
    /\ tOpens = 1

\* the Anthropic SDK's stream reported an error, and was not opened again
C31_BridgeFailureSeen ==
    /\ emitter = "errored"
    /\ tOpens = 1

\* ---------------------------------------------------------------------
\* C32: in a local stream, once the body's reader has been acquired its
\* lock is released exactly once however the sequence ends (the [DONE]
\* marker, the end of the body, a read that fails, the consumer stopping
\* while the generator is suspended at a chunk), and no read is made after
\* the release: the lock is held from the acquisition to the end, the end
\* releases it once, and after the release the generator is at its end
\* with no read pending.
ReaderAcquired == sTransport \in {"open", "ended", "failed"}

C32_LockReleasedOnce ==
    sAdapter = "local" =>
      /\ releases <= 1
      /\ locked <=> (ReaderAcquired /\ releases = 0)
      /\ (ReaderAcquired /\ sPc \in {"finished", "threw"}) => releases = 1
      /\ releases = 1 =>
            /\ sPc \in {"finished", "threw"}
            /\ sPull = "idle"

\* the consumer stopped while lines of the body were still unread and no
\* marker had been read: the lock was released once
C32_Witness ==
    /\ sAdapter = "local"
    /\ sPc = "finished"
    /\ sTransport = "open"
    /\ body # <<>>
    /\ ~HasDone(DataPayloads(TerminatedLines(BytesRead)))
    /\ releases = 1
    /\ ~locked

\* the three other ends, each with its one release
C32_MarkerEndSeen ==
    /\ sAdapter = "local"
    /\ sPc = "finished"
    /\ lines = <<>>
    /\ HasDone(DataPayloads(TerminatedLines(BytesRead)))
    /\ releases = 1

C32_BodyEndSeen ==
    sAdapter = "local" /\ sTransport = "ended" /\ releases = 1

C32_ReadFailureSeen ==
    /\ sAdapter = "local"
    /\ sTransport = "failed"
    /\ sPc = "threw"
    /\ releases = 1

\* ---------------------------------------------------------------------
\* C33: in complete of every adapter the transport is tried at least once
\* and at most n times when config.maxRetries is n > 0, and at least once
\* and at most 3 times when config.maxRetries is unset or 0: a configured
\* 0 neither means no attempt nor switches retrying off. (A call that
\* fails before the request is built, because the SDK client cannot be
\* made, does not reach the transport and is left aside.)
AttemptLimit ==
    IF kConfigRetries = Undefined THEN 3
    ELSE IF kConfigRetries.v = 0 THEN 3 ELSE kConfigRetries.v

C33_ConfiguredLimitSeen ==
    /\ kAdapter # "none"
    /\ kConfigRetries = Some(2)
    /\ kPc = "threw"
    /\ kCalls = 2
    /\ Len(kArrived) = 2
    /\ kArrived[2] = "rejected"

(***************************************************************************)
(* C34  Default-adapter invariant of the dispatcher.                       *)
(***************************************************************************)

\* The last complete/stream call named neither a model nor a provider.
BareCall ==
    /\ dCall # Undefined
    /\ dCall.model = Undefined
    /\ dCall.provider = Undefined

\* C34: in every reachable state the default kind is "anthropic" or a kind
\* whose adapter is initialized; a call with neither model nor provider goes
\* to the adapter of the default kind when that adapter is initialized, and
\* otherwise (the default is then still the initial "anthropic", which was
\* never successfully set) throws 'No provider available', whatever other
\* adapters are initialized.
C34_DefaultIsAnthropicOrInitialized ==
    /\ defaultProvider = "anthropic" \/ defaultProvider \in DOMAIN providers
    /\ BareCall =>
         IF defaultProvider \in DOMAIN providers
         THEN /\ dCall.adapter = [type |-> defaultProvider]
              /\ dCall.threw = "none"
              /\ dCall.invoked = <<defaultProvider>>
         ELSE /\ defaultProvider = "anthropic"
              /\ dCall.adapter = Undefined
              /\ dCall.threw = "No provider available"
              /\ dCall.invoked = <<>>
              /\ dCall.surfaced = [kind |-> "threw",
                                   error |-> NoProviderError(dCall.op)]

\* A bare call fails while openai and local are initialized and anthropic,
\* the never-set default, is not.
C34_Witness ==
    /\ BareCall
    /\ defaultProvider = "anthropic"
    /\ DOMAIN providers = {"openai", "local"}
    /\ dCall.threw = "No provider available"

\* After setDefaultProvider('local') succeeded, a bare call reaches the local
\* adapter.
C34_SetDefaultSeen ==
    /\ BareCall
    /\ defaultProvider = "local"
    /\ dCall.adapter = [type |-> "local"]
    /\ dCall.threw = "none"

(***************************************************************************)
(* C35  initializeFromEnvironment over every environment.                  *)
(***************************************************************************)

\* the adapters of the Map that are ready now
ReadyKinds == { k \in DOMAIN adapters : isReady(k, adapters[k], env) }

\* the priority of the claim: anthropic, then openai, then local
Rank(kind) ==
    CASE kind = "anthropic" -> 1
      [] kind = "openai" -> 2
      [] OTHER -> 3

\* C35: right after initializeFromEnvironment, whatever the three environment
\* variables hold and whatever adapters were built before: the call did not
\* throw, the local adapter is initialized, and the default kind is an
\* initialized, ready adapter that no other ready adapter outranks in the
\* order anthropic, openai, local.
C35_EnvironmentDefault ==
    eCall # Undefined =>
      /\ eCall.threw = "none"
      /\ "local" \in DOMAIN providers
      /\ DOMAIN providers = DOMAIN adapters
      /\ defaultProvider \in DOMAIN providers
      /\ defaultProvider \in ReadyKinds
      /\ eCall.ready = ReadyKinds
      /\ \A k \in ReadyKinds : Rank(defaultProvider) <= Rank(k)

\* Both API keys exported: anthropic is chosen over a ready openai.
C35_Witness ==
    /\ eCall # Undefined
    /\ Truthy(env.OPENAI_API_KEY)
    /\ Truthy(env.ANTHROPIC_API_KEY)
    /\ ReadyKinds = {"openai", "anthropic", "local"}
    /\ defaultProvider = "anthropic"

\* Nothing exported: only the local adapter exists and becomes the default.
C35_NothingExportedSeen ==
    /\ eCall # Undefined
    /\ env = [OPENAI_API_KEY |-> Undefined, ANTHROPIC_API_KEY |-> Undefined,
              LOCAL_LLM_URL |-> Undefined]
    /\ DOMAIN adapters = {"local"}
    /\ defaultProvider = "local"

\* An anthropic adapter built earlier without a key is in the Map but not
\* ready; openai, whose key is exported, is chosen.
C35_UnreadyAnthropicSeen ==
    /\ eCall # Undefined
    /\ "anthropic" \in DOMAIN adapters
    /\ "anthropic" \notin ReadyKinds
    /\ defaultProvider = "openai"

====
